---- MODULE Spec2Model ----
(***************************************************************************)
(* Model of the reference-tag engine of the workflow editor (TagDropdown   *)
(* in apps/sim/lib/auth-client.ts): tag derivation for the blocks that a   *)
(* requesting block may reference, loop/parallel contextual groups, and    *)
(* the insertion of a selected tag into the input text.                    *)
(*                                                                         *)
(* Text is a sequence of tokens.  A token is one character ("<", ">",      *)
(* ".", " ", "[", ...) or an atomic run of word characters ([A-Za-z0-9])   *)
(* such as "url" or "index".  A tag is a token sequence as well, so that   *)
(* split('.') and join('.') are computed, not assumed.                     *)
(***************************************************************************)
EXTENDS Integers, Sequences, FiniteSets, TLC

(***************************************************************************)
(* Bounds of the model.                                                    *)
(***************************************************************************)
MaxLen == 3
MaxBlocks == 2
MaxNodes == 1
MaxCalls == 2

(***************************************************************************)
(* JavaScript string helpers on token sequences (0-based indices).         *)
(***************************************************************************)
Slice(s, from, to) == SubSeq(s, from + 1, IF to < Len(s) THEN to ELSE Len(s))

SliceFrom(s, from) == SubSeq(s, from + 1, Len(s))

LastIndexOf(s, c) ==
  IF \E i \in 1..Len(s) : s[i] = c
  THEN (CHOOSE i \in 1..Len(s) : s[i] = c /\ \A j \in (i + 1)..Len(s) : s[j] # c) - 1
  ELSE -1

IndexOf(s, c) ==
  IF \E i \in 1..Len(s) : s[i] = c
  THEN (CHOOSE i \in 1..Len(s) : s[i] = c /\ \A j \in 1..(i - 1) : s[j] # c) - 1
  ELSE -1

StartsWith(s, p) == Len(s) >= Len(p) /\ SubSeq(s, 1, Len(p)) = p

Includes(seq, x) == \E i \in 1..Len(seq) : seq[i] = x

RECURSIVE Split(_)
Split(s) ==
  IF \A i \in 1..Len(s) : s[i] # "."
  THEN <<s>>
  ELSE LET i == CHOOSE k \in 1..Len(s) : s[k] = "." /\ \A j \in 1..(k - 1) : s[j] # "."
       IN  <<SubSeq(s, 1, i - 1)>> \o Split(SubSeq(s, i + 1, Len(s)))

RECURSIVE Join(_)
Join(parts) ==
  IF Len(parts) = 0 THEN <<>>
  ELSE IF Len(parts) = 1 THEN parts[1]
  ELSE parts[1] \o <<".">> \o Join(Tail(parts))

RECURSIVE Flatten(_)
Flatten(seqs) == IF seqs = <<>> THEN <<>> ELSE Head(seqs) \o Flatten(Tail(seqs))

\* The characters a token stands for that are outside [a-zA-Z0-9._].
NonRefChars == {"<", ">", " ", "[", "]"}

\* /^[a-zA-Z0-9._]*$/.test(text)
IsPartialReference(text) == \A i \in 1..Len(text) : text[i] \notin NonRefChars

\* String.prototype.toLowerCase on the word atoms used for block names.
UpperToLower ==
  [t \in {"A", "B", "Q", "Loop", "Par", "Variable"} |->
     CASE t = "A" -> "a"
       [] t = "B" -> "b"
       [] t = "Q" -> "q"
       [] t = "Loop" -> "loop"
       [] t = "Par" -> "par"
       [] t = "Variable" -> "variable"]

ToLowerCase(t) == IF t \in DOMAIN UpperToLower THEN UpperToLower[t] ELSE t

IsWhitespace(t) == t = " "

(***************************************************************************)
(* checkTagTrigger: is there an unclosed "<" before the cursor?            *)
(***************************************************************************)
\* Any "<" before the cursor opens the dropdown, closed or not.
checkTagTrigger_AnyOpen(text, cursorPosition) ==
  IF cursorPosition >= 1
  THEN LastIndexOf(Slice(text, 0, cursorPosition), "<") # -1
  ELSE FALSE

checkTagTrigger(text, cursorPosition) ==
  IF cursorPosition >= 1
  THEN LET textBeforeCursor == Slice(text, 0, cursorPosition)
           lastOpenBracket == LastIndexOf(textBeforeCursor, "<")
           lastCloseBracket == LastIndexOf(textBeforeCursor, ">")
       IN  lastOpenBracket # -1 /\ (lastCloseBracket = -1 \/ lastCloseBracket < lastOpenBracket)
  ELSE FALSE

TAG_PREFIX_VARIABLE == <<"variable", ".">>

normalizeBlockName(blockName) ==
  LET kept == SelectSeq(blockName, LAMBDA t : ~IsWhitespace(t))
  IN  [i \in 1..Len(kept) |-> ToLowerCase(kept[i])]

normalizeVariableName(variableName) ==
  SelectSeq(variableName, LAMBDA t : ~IsWhitespace(t))

ensureRootTag(tags, rootTag) ==
  IF rootTag = <<>> THEN tags
  ELSE IF Includes(tags, rootTag) THEN tags
  ELSE <<rootTag>> \o tags

(***************************************************************************)
(* Declared outputs.  An outputs object is a sequence of <<key, value>>    *)
(* entries in Object.entries order.  A value is one of                     *)
(*   Str(t)       a bare type string                                       *)
(*   Leaf(t)      { type: t, ... } without nested properties               *)
(*   Obj(ps)      { type: 'object', properties: ps }                       *)
(*   Arr(ps)      { type: 'array', items: { properties: ps } }             *)
(*   Legacy(es)   a nested object without a string 'type'                  *)
(*   Other        any non-object, non-string value                         *)
(***************************************************************************)
Str(t) == [k |-> "str", type |-> t, where |-> "none", props |-> <<>>]

Leaf(t) == [k |-> "typed", type |-> t, where |-> "none", props |-> <<>>]

Obj(ps) == [k |-> "typed", type |-> "object", where |-> "properties", props |-> ps]

Arr(ps) == [k |-> "typed", type |-> "array", where |-> "items", props |-> ps]

Legacy(es) == [k |-> "legacy", type |-> "", where |-> "none", props |-> es]

Other == [k |-> "other", type |-> "", where |-> "none", props |-> <<>>]

PathOf(prefix, key) == IF prefix # <<>> THEN prefix \o <<".">> \o <<key>> ELSE <<key>>

RECURSIVE generateOutputPaths(_, _)
generateOutputPaths(outputs, prefix) ==
  IF outputs = <<>> THEN <<>>
  ELSE LET key == Head(outputs)[1]
           value == Head(outputs)[2]
           currentPath == PathOf(prefix, key)
           here == IF value.k = "str" THEN <<currentPath>>
                   ELSE IF value.k = "typed" THEN <<currentPath>>
                   ELSE IF value.k = "legacy" THEN generateOutputPaths(value.props, currentPath)
                   ELSE <<currentPath>>
       IN  here \o generateOutputPaths(Tail(outputs), prefix)

\* A container's own entry is left out: only its descendants are emitted.
RECURSIVE generateOutputPathsWithTypes_NoContainer(_, _)
generateOutputPathsWithTypes_NoContainer(outputs, prefix) ==
  IF outputs = <<>> THEN <<>>
  ELSE LET key == Head(outputs)[1]
           value == Head(outputs)[2]
           currentPath == PathOf(prefix, key)
           here ==
             IF value.k = "str" THEN <<[path |-> currentPath, type |-> value.type]>>
             ELSE IF value.k = "typed" THEN
               IF \/ value.type = "array" /\ value.where = "items"
                  \/ value.type = "object" /\ value.where = "properties"
               THEN generateOutputPathsWithTypes_NoContainer(value.props, currentPath)
               ELSE <<[path |-> currentPath, type |-> value.type]>>
             ELSE IF value.k = "legacy"
             THEN generateOutputPathsWithTypes_NoContainer(value.props, currentPath)
             ELSE <<[path |-> currentPath, type |-> "any"]>>
       IN  here \o generateOutputPathsWithTypes_NoContainer(Tail(outputs), prefix)

RECURSIVE generateOutputPathsWithTypes(_, _)
generateOutputPathsWithTypes(outputs, prefix) ==
  IF outputs = <<>> THEN <<>>
  ELSE LET key == Head(outputs)[1]
           value == Head(outputs)[2]
           currentPath == PathOf(prefix, key)
           here ==
             IF value.k = "str" THEN <<[path |-> currentPath, type |-> value.type]>>
             ELSE IF value.k = "typed" THEN
               IF value.type = "array" /\ value.where = "items"
               THEN <<[path |-> currentPath, type |-> "array"]>>
                      \o generateOutputPathsWithTypes(value.props, currentPath)
               ELSE IF value.type = "object" /\ value.where = "properties"
               THEN <<[path |-> currentPath, type |-> "object"]>>
                      \o generateOutputPathsWithTypes(value.props, currentPath)
               ELSE <<[path |-> currentPath, type |-> value.type]>>
             ELSE IF value.k = "legacy"
             THEN generateOutputPathsWithTypes(value.props, currentPath)
             ELSE <<[path |-> currentPath, type |-> "any"]>>
       IN  here \o generateOutputPathsWithTypes(Tail(outputs), prefix)

(***************************************************************************)
(* The registries the engine reads: block configurations by block type,    *)
(* tools by tool id, triggers by trigger id.  A type that is not in the    *)
(* domain has no registered configuration (loop and parallel blocks, and   *)
(* types that have been removed).                                          *)
(***************************************************************************)
NoTool == "none"

BlockRegistry ==
  [t \in {"starter", "agent", "mail", "generic_webhook", "mail_trigger",
           "evaluator", "variables"} |->
     CASE t = "starter" ->
            [category |-> "blocks", outputs |-> <<>>, triggersEnabled |-> FALSE,
             tool |-> [op \in {"send", "read"} |-> NoTool]]
       [] t = "agent" ->
            [category |-> "blocks",
             outputs |-> << <<"content", Leaf("string")>>, <<"tokens", Leaf("json")>> >>,
             triggersEnabled |-> FALSE,
             tool |-> [op \in {"send", "read"} |-> NoTool]]
       [] t = "mail" ->
            [category |-> "tools",
             outputs |-> << <<"content", Leaf("string")>> >>,
             triggersEnabled |-> TRUE,
             tool |-> [op \in {"send", "read"} |->
                         IF op = "send" THEN "mail_send" ELSE "mail_read"]]
       [] t = "generic_webhook" ->
            [category |-> "triggers", outputs |-> <<>>, triggersEnabled |-> TRUE,
             tool |-> [op \in {"send", "read"} |-> NoTool]]
       [] t = "mail_trigger" ->
            [category |-> "triggers",
             outputs |-> << <<"email", Leaf("json")>> >>,
             triggersEnabled |-> TRUE,
             tool |-> [op \in {"send", "read"} |-> NoTool]]
       [] t = "evaluator" ->
            [category |-> "tools",
             outputs |-> << <<"content", Leaf("string")>> >>,
             triggersEnabled |-> FALSE,
             tool |-> [op \in {"send", "read"} |-> NoTool]]
       [] t = "variables" ->
            [category |-> "blocks",
             outputs |-> << <<"assignments", Leaf("json")>> >>,
             triggersEnabled |-> FALSE,
             tool |-> [op \in {"send", "read"} |-> NoTool]]]

getBlock(type) == IF type \in DOMAIN BlockRegistry THEN BlockRegistry[type] ELSE "undefined"

HasConfig(type) == type \in DOMAIN BlockRegistry

ToolRegistry ==
  [t \in {"mail_send", "mail_read"} |->
     IF t = "mail_send"
     THEN [outputs |-> << <<"id", Str("string")>>, <<"attachments", Str("files")>> >>]
     ELSE [outputs |-> << <<"attachments", Str("files")>>,
                          <<"message", Legacy(<< <<"attachments",
                                                   Legacy(<< <<"name", Str("string")>> >>)>>,
                                                 <<"body", Str("string")>> >>)>> >>]]

\* The outputs of the trigger a block type runs in trigger mode or as a trigger block.
TriggerOutputs ==
  [t \in {"mail", "mail_trigger", "generic_webhook"} |->
     CASE t = "mail" ->
            << <<"subject", Leaf("string")>>, <<"attachments", Leaf("files")>> >>
       [] t = "mail_trigger" ->
            << <<"email", Legacy(<< <<"subject", Leaf("string")>>,
                                    <<"attachments", Leaf("files")>> >>)>>,
               <<"attachments", Leaf("json")>> >>
       [] t = "generic_webhook" -> <<>>]

fileProperties ==
  << <<"url">>, <<"name">>, <<"size">>, <<"type">>, <<"key">>, <<"uploadedAt">>, <<"expiresAt">> >>

(***************************************************************************)
(* Sub-block values.  A sub-block slot either has no value or holds one.   *)
(* A block's persisted subBlocks and the live sub-block store have the     *)
(* same shape; getMergedSubBlocks lays the live values over the persisted  *)
(* ones field by field.                                                    *)
(***************************************************************************)
SubIds == {"startWorkflow", "inputFormat", "operation", "metrics", "variables", "responseFormat"}

NoValue == [has |-> FALSE, value |-> <<>>]

Val(v) == [has |-> TRUE, value |-> v]

EmptySub == [x \in SubIds |-> NoValue]

getMergedSubBlocks(s, targetBlockId) ==
  LET base == IF targetBlockId \in DOMAIN s.blocks
              THEN s.blocks[targetBlockId].subBlocks ELSE EmptySub
      live == IF targetBlockId \in DOMAIN s.live THEN s.live[targetBlockId] ELSE EmptySub
  IN  [x \in SubIds |-> IF live[x].has THEN live[x] ELSE base[x]]

\* useSubBlockStore.getState().getValue(blockId, property): the live store only.
getSubBlockValue(s, id, property) ==
  IF id \in DOMAIN s.live THEN s.live[id][property] ELSE NoValue

IsValue(slot, v) == slot.has /\ slot.value = v

\* A non-empty array value (value && Array.isArray(value) && value.length > 0).
NonEmptyArray(slot) == slot.has /\ Len(slot.value) > 0

TagsOf(normalizedBlockName, paths) ==
  [i \in 1..Len(paths) |-> normalizedBlockName \o <<".">> \o paths[i]]

IsBlankName(n) == n = "" \/ n = " "

RECURSIVE ExpandFiles(_)
ExpandFiles(typed) ==
  IF typed = <<>> THEN <<>>
  ELSE LET e == Head(typed)
           own == IF e.type = "files"
                  THEN <<e.path>> \o [i \in 1..Len(fileProperties) |->
                                         e.path \o <<".">> \o fileProperties[i]]
                  ELSE <<e.path>>
       IN  own \o ExpandFiles(Tail(typed))

InputFormatFields(merged) ==
  IF NonEmptyArray(merged["inputFormat"])
  THEN SelectSeq(merged["inputFormat"].value, LAMBDA f : ~IsBlankName(f.name))
  ELSE <<>>

\* The typed outputs a block has when its outputs depend on live configuration
\* (trigger mode, starter mode, trigger blocks); the static outputs otherwise.
DynamicTypedOutputs(type, merged, triggerMode) ==
  IF triggerMode /\ HasConfig(type) /\ BlockRegistry[type].triggersEnabled
     /\ type \in DOMAIN TriggerOutputs
  THEN generateOutputPathsWithTypes(TriggerOutputs[type], <<>>)
  ELSE IF type = "starter"
  THEN IF IsValue(merged["startWorkflow"], "chat")
       THEN << [path |-> <<"input">>, type |-> "string"],
               [path |-> <<"conversationId">>, type |-> "string"],
               [path |-> <<"files">>, type |-> "files"] >>
       ELSE LET fs == InputFormatFields(merged)
            IN  [i \in 1..Len(fs) |-> [path |-> <<fs[i].name>>, type |-> fs[i].type]]
  ELSE IF HasConfig(type) /\ BlockRegistry[type].category = "triggers"
          /\ type \in DOMAIN TriggerOutputs
  THEN generateOutputPathsWithTypes(TriggerOutputs[type], <<>>)
  ELSE IF HasConfig(type)
  THEN generateOutputPathsWithTypes(BlockRegistry[type].outputs, <<>>)
  ELSE <<>>

getBlockOutputPaths(type, merged, triggerMode) ==
  ExpandFiles(DynamicTypedOutputs(type, merged, triggerMode))

getBlockOutputType(type, outputPath, merged, triggerMode) ==
  LET typed == DynamicTypedOutputs(type, merged, triggerMode)
  IN  IF \E i \in 1..Len(typed) : typed[i].path = outputPath
      THEN typed[CHOOSE i \in 1..Len(typed) :
                   typed[i].path = outputPath
                   /\ \A j \in 1..(i - 1) : typed[j].path # outputPath].type
      ELSE "any"

generateToolOutputPaths(blockConfig, operation) ==
  LET toolId == blockConfig.tool[operation]
  IN  IF toolId = NoTool THEN <<>>
      ELSE IF toolId \notin DOMAIN ToolRegistry THEN <<>>
      ELSE generateOutputPaths(ToolRegistry[toolId].outputs, <<>>)

getToolOutputType(blockConfig, operation, path) ==
  LET toolId == blockConfig.tool[operation]
  IN  IF toolId = NoTool THEN "any"
      ELSE IF toolId \notin DOMAIN ToolRegistry THEN "any"
      ELSE LET pathsWithTypes == generateOutputPathsWithTypes(ToolRegistry[toolId].outputs, <<>>)
           IN  IF \E i \in 1..Len(pathsWithTypes) : pathsWithTypes[i].path = path
               THEN pathsWithTypes[CHOOSE i \in 1..Len(pathsWithTypes) :
                      pathsWithTypes[i].path = path
                      /\ \A j \in 1..(i - 1) : pathsWithTypes[j].path # path].type
               ELSE "any"

(***************************************************************************)
(* Response formats (parseResponseFormatSafely, extractFieldsFromSchema).  *)
(* A configured value is an object, or a string that is a "<...>"          *)
(* reference, blank, JSON text or unparsable text.                         *)
(***************************************************************************)
RFObject(hasFields, fields, hasProperties, properties) ==
  [k |-> "object", hasFields |-> hasFields, fields |-> fields,
   hasProperties |-> hasProperties, properties |-> properties]

RFString(text, parsed) == [k |-> "string", text |-> text, parsed |-> parsed]

RFUndefined == [k |-> "undefined"]

parseResponseFormatSafely(slot) ==
  IF ~slot.has THEN RFUndefined
  ELSE IF slot.value.k = "object" THEN slot.value
  ELSE IF slot.value.k = "string" THEN
    IF slot.value.text = "reference" THEN [k |-> "reference"]
    ELSE IF slot.value.text = "blank" THEN RFUndefined
    ELSE IF slot.value.text = "json" THEN slot.value.parsed
    ELSE RFUndefined
  ELSE RFUndefined

\* The names of the extracted fields.
extractFieldsFromSchema(schema) ==
  IF schema.k # "object" THEN <<>>
  ELSE IF schema.hasFields THEN schema.fields
  ELSE IF ~schema.hasProperties THEN <<>>
  ELSE schema.properties

(***************************************************************************)
(* getOutputTypeForPath: the type of one output field of a block.          *)
(***************************************************************************)
FirstWithName(fields, n) ==
  CHOOSE i \in 1..Len(fields) : <<fields[i].name>> = n
                                /\ \A j \in 1..(i - 1) : <<fields[j].name>> # n

chatModeTypes(outputPath) ==
  IF outputPath = <<"input">> THEN "string"
  ELSE IF outputPath = <<"conversationId">> THEN "string"
  ELSE IF outputPath = <<"files">> THEN "files"
  ELSE "any"

\* The type is not looked up: every field counts as a file field.
getOutputTypeForPath_AlwaysFiles(s, blockId, outputPath, merged) == "files"

getOutputTypeForPath(s, blockId, outputPath, merged) ==
  LET defined == blockId \in DOMAIN s.blocks
      block == s.blocks[blockId]
      hasCfg == defined /\ HasConfig(block.type)
      blockConfig == BlockRegistry[block.type]
  IN  IF defined /\ block.triggerMode /\ hasCfg /\ blockConfig.triggersEnabled
      THEN getBlockOutputType(block.type, outputPath, merged, TRUE)
      ELSE IF defined /\ block.type = "starter"
      THEN LET startWorkflowValue == IF merged["startWorkflow"].has
                                     THEN merged["startWorkflow"]
                                     ELSE getSubBlockValue(s, blockId, "startWorkflow")
               inputFormatValue == IF merged["inputFormat"].has
                                   THEN merged["inputFormat"]
                                   ELSE getSubBlockValue(s, blockId, "inputFormat")
           IN  IF IsValue(startWorkflowValue, "chat")
               THEN chatModeTypes(outputPath)
               ELSE IF inputFormatValue.has
                       /\ \E i \in 1..Len(inputFormatValue.value) :
                            <<inputFormatValue.value[i].name>> = outputPath
                       /\ inputFormatValue.value[FirstWithName(inputFormatValue.value,
                                                               outputPath)].type # ""
               THEN inputFormatValue.value[FirstWithName(inputFormatValue.value,
                                                         outputPath)].type
               ELSE "any"
      ELSE IF hasCfg /\ blockConfig.category = "triggers"
      THEN getBlockOutputType(block.type, outputPath, merged, FALSE)
      ELSE LET operationValue == getSubBlockValue(s, blockId, "operation")
           IN  IF hasCfg /\ operationValue.has
               THEN getToolOutputType(blockConfig, operationValue.value, outputPath)
               ELSE "any"

(***************************************************************************)
(* Tag groups.                                                             *)
(***************************************************************************)
Group(blockName, blockId, blockType, tags, distance) ==
  [blockName |-> blockName, blockId |-> blockId, blockType |-> blockType,
   tags |-> tags, distance |-> distance]

\* No group: an absent loop/parallel group, or handleTagSelect called without one.
NoGroup == Group(<<>>, 0, "undefined", <<>>, 0)

HasGroup(g) == g.blockType # "undefined"

\* block.name || block.type
DisplayName(block) == IF block.name # <<>> THEN block.name ELSE <<block.type>>

StaticTags(normalizedBlockName, blockConfig) ==
  TagsOf(normalizedBlockName, generateOutputPaths(blockConfig.outputs, <<>>))

MetricTags(normalizedBlockName, metricsValue) ==
  LET validMetrics == SelectSeq(metricsValue.value, LAMBDA m : m.name # "")
  IN  [i \in 1..Len(validMetrics) |->
         normalizedBlockName \o <<".", ToLowerCase(validMetrics[i].name)>>]

\* String.prototype.trim
RECURSIVE Trim(_)
Trim(t) ==
  IF t = <<>> THEN <<>>
  ELSE IF IsWhitespace(Head(t)) THEN Trim(Tail(t))
  ELSE IF IsWhitespace(t[Len(t)]) THEN Trim(SubSeq(t, 1, Len(t) - 1))
  ELSE t

\* An assignment's variableName is text the user typed (it may hold dots).
AssignmentTags(normalizedBlockName, variablesValue) ==
  LET validAssignments == SelectSeq(variablesValue.value,
                                    LAMBDA a : Trim(a.variableName) # <<>>)
  IN  [i \in 1..Len(validAssignments) |->
         normalizedBlockName \o <<".">> \o Trim(validAssignments[i].variableName)]

ToolOrStaticTags(s, id, normalizedBlockName, blockConfig, merged) ==
  LET operationValue == IF merged["operation"].has THEN merged["operation"]
                        ELSE getSubBlockValue(s, id, "operation")
      toolOutputPaths == IF operationValue.has
                         THEN generateToolOutputPaths(blockConfig, operationValue.value)
                         ELSE <<>>
  IN  IF Len(toolOutputPaths) > 0
      THEN TagsOf(normalizedBlockName, toolOutputPaths)
      ELSE StaticTags(normalizedBlockName, blockConfig)

\* The tags of an accessible block that has a registered configuration,
\* before the root-tag policy is applied.
AccessibleBlockTags(s, accessibleBlockId) ==
  LET accessibleBlock == s.blocks[accessibleBlockId]
      blockConfig == BlockRegistry[accessibleBlock.type]
      normalizedBlockName == normalizeBlockName(DisplayName(accessibleBlock))
      mergedSubBlocks == getMergedSubBlocks(s, accessibleBlockId)
      responseFormat == parseResponseFormatSafely(mergedSubBlocks["responseFormat"])
  IN  IF blockConfig.category = "triggers" \/ accessibleBlock.type = "starter"
      THEN LET dynamicOutputs == getBlockOutputPaths(accessibleBlock.type, mergedSubBlocks, FALSE)
           IN  IF Len(dynamicOutputs) > 0
               THEN TagsOf(normalizedBlockName, dynamicOutputs)
               ELSE IF accessibleBlock.type = "starter"
               THEN IF IsValue(mergedSubBlocks["startWorkflow"], "chat")
                    THEN TagsOf(normalizedBlockName,
                                << <<"input">>, <<"conversationId">>, <<"files">> >>)
                    ELSE <<normalizedBlockName>>
               ELSE IF accessibleBlock.type = "generic_webhook"
               THEN <<normalizedBlockName>>
               ELSE <<>>
      ELSE IF accessibleBlock.type = "evaluator"
      THEN LET metricsValue == getSubBlockValue(s, accessibleBlockId, "metrics")
           IN  IF NonEmptyArray(metricsValue)
               THEN MetricTags(normalizedBlockName, metricsValue)
               ELSE StaticTags(normalizedBlockName, blockConfig)
      ELSE IF accessibleBlock.type = "variables"
      THEN LET variablesValue == getSubBlockValue(s, accessibleBlockId, "variables")
           IN  IF NonEmptyArray(variablesValue)
               THEN AssignmentTags(normalizedBlockName, variablesValue)
               ELSE <<normalizedBlockName>>
      ELSE IF responseFormat.k # "undefined"
      THEN LET schemaFields == extractFieldsFromSchema(responseFormat)
           IN  IF Len(schemaFields) > 0
               THEN [i \in 1..Len(schemaFields) |->
                       normalizedBlockName \o <<".", schemaFields[i]>>]
               ELSE StaticTags(normalizedBlockName, blockConfig)
      ELSE IF Len(blockConfig.outputs) = 0
      THEN <<normalizedBlockName>>
      ELSE IF accessibleBlock.triggerMode /\ blockConfig.triggersEnabled
      THEN LET dynamicOutputs == getBlockOutputPaths(accessibleBlock.type, mergedSubBlocks, TRUE)
           IN  IF Len(dynamicOutputs) > 0
               THEN TagsOf(normalizedBlockName, dynamicOutputs)
               ELSE StaticTags(normalizedBlockName, blockConfig)
      ELSE ToolOrStaticTags(s, accessibleBlockId, normalizedBlockName, blockConfig, mergedSubBlocks)

\* ensureRootTag, then the bare name is kept for generic_webhook blocks only.
RootTagPolicy(blockTags, normalizedBlockName, blockType) ==
  LET withRoot == ensureRootTag(blockTags, normalizedBlockName)
  IN  IF blockType = "generic_webhook" THEN withRoot
      ELSE SelectSeq(withRoot, LAMBDA tag : tag # normalizedBlockName)

(***************************************************************************)
(* Distances from the starter block (breadth-first over the edge list).    *)
(***************************************************************************)
adjList(edges, source) ==
  LET out == SelectSeq(edges, LAMBDA e : e.source = source)
  IN  [i \in 1..Len(out) |-> out[i].target]

\* The targets are put at the front of the queue (depth first).
RECURSIVE BfsLoop_DepthFirst(_, _, _, _)
BfsLoop_DepthFirst(queue, visited, blockDistances, edges) ==
  IF queue = <<>> THEN blockDistances
  ELSE LET currentNodeId == Head(queue)[1]
           distance == Head(queue)[2]
           outgoingNodeIds == adjList(edges, currentNodeId)
       IN  IF currentNodeId \in visited
           THEN BfsLoop_DepthFirst(Tail(queue), visited, blockDistances, edges)
           ELSE BfsLoop_DepthFirst([i \in 1..Len(outgoingNodeIds) |->
                                      <<outgoingNodeIds[i], distance + 1>>] \o Tail(queue),
                                   visited \cup {currentNodeId},
                                   blockDistances @@ (currentNodeId :> distance),
                                   edges)

RECURSIVE BfsLoop(_, _, _, _)
BfsLoop(queue, visited, blockDistances, edges) ==
  IF queue = <<>> THEN blockDistances
  ELSE LET currentNodeId == Head(queue)[1]
           distance == Head(queue)[2]
           outgoingNodeIds == adjList(edges, currentNodeId)
       IN  IF currentNodeId \in visited
           THEN BfsLoop(Tail(queue), visited, blockDistances, edges)
           ELSE BfsLoop(Tail(queue) \o [i \in 1..Len(outgoingNodeIds) |->
                                          <<outgoingNodeIds[i], distance + 1>>],
                        visited \cup {currentNodeId},
                        blockDistances @@ (currentNodeId :> distance),
                        edges)

MinOf(S) == CHOOSE x \in S : \A y \in S : x <= y

\* Object.values / Object.entries enumerate in insertion order; block ids are
\* numbered in insertion order.
blockDistancesOf(s) ==
  LET starters == {id \in DOMAIN s.blocks : s.blocks[id].type = "starter"}
  IN  IF starters = {} THEN <<>>
      ELSE BfsLoop(<< <<MinOf(starters), 0>> >>, {}, <<>>, s.edges)

\* blockDistances[id] || 0
DistanceOrZero(blockDistances, id) ==
  IF id \in DOMAIN blockDistances THEN blockDistances[id] ELSE 0

RECURSIVE InsertByDistance(_, _)
InsertByDistance(sorted, g) ==
  IF sorted = <<>> THEN <<g>>
  ELSE IF g.distance < Head(sorted).distance THEN <<g>> \o sorted
  ELSE <<Head(sorted)>> \o InsertByDistance(Tail(sorted), g)

\* Array.prototype.sort((a, b) => a.distance - b.distance), which is stable.
RECURSIVE SortByDistance(_)
SortByDistance(groups) ==
  IF groups = <<>> THEN <<>>
  ELSE InsertByDistance(SortByDistance(SubSeq(groups, 1, Len(groups) - 1)),
                        groups[Len(groups)])

(***************************************************************************)
(* Loop and parallel contextual groups of the requesting block.            *)
(***************************************************************************)
\* The item tags are offered for every loop whose type is set, not for forEach alone.
loopContextualTags_AnyTyped(loopType) ==
  << <<"index">>, <<"currentIteration">> >>
    \o (IF loopType # "" THEN << <<"currentItem">>, <<"items">> >> ELSE <<>>)

loopContextualTags(loopType) ==
  LET effective == IF loopType = "" THEN "for" ELSE loopType
  IN  << <<"index">>, <<"currentIteration">> >>
        \o (IF effective = "forEach" THEN << <<"currentItem">>, <<"items">> >> ELSE <<>>)

parallelContextualTags(parallelType) ==
  LET effective == IF parallelType = "" THEN "count" ELSE parallelType
  IN  << <<"index">> >>
        \o (IF effective = "collection" THEN << <<"currentItem">>, <<"items">> >> ELSE <<>>)

\* The first container is taken, whether or not the block is one of its nodes.
containingOf_First(containers, blockId) ==
  IF DOMAIN containers = {} THEN 0 ELSE MinOf(DOMAIN containers)

\* Object.entries(containers).find(([_, c]) => c.nodes.includes(blockId)); 0 when none.
containingOf(containers, blockId) ==
  LET holders == {id \in DOMAIN containers : blockId \in containers[id].nodes}
  IN  IF holders = {} THEN 0 ELSE MinOf(holders)

isLoopBlock(s) == s.blockId \in DOMAIN s.blocks /\ s.blocks[s.blockId].type = "loop"

\* currentLoop && isLoopBlock
editsOwnLoop(s) == isLoopBlock(s) /\ s.blockId \in DOMAIN s.loops

containingLoopBlockIdOf(s) ==
  IF editsOwnLoop(s) THEN s.blockId ELSE containingOf(s.loops, s.blockId)

containingParallelBlockIdOf(s) == containingOf(s.parallels, s.blockId)

loopBlockGroupOf(s) ==
  LET loopId == containingLoopBlockIdOf(s)
  IN  IF loopId = 0 THEN NoGroup
      ELSE IF loopId \notin DOMAIN s.blocks THEN NoGroup
      ELSE Group(DisplayName(s.blocks[loopId]), loopId, "loop",
                 loopContextualTags(s.loops[loopId].loopType), 0)

parallelBlockGroupOf(s) ==
  LET parallelId == containingParallelBlockIdOf(s)
  IN  IF parallelId = 0 THEN NoGroup
      ELSE IF parallelId \notin DOMAIN s.blocks THEN NoGroup
      ELSE Group(DisplayName(s.blocks[parallelId]), parallelId, "parallel",
                 parallelContextualTags(s.parallels[parallelId].parallelType), 0)

(***************************************************************************)
(* The tags memo of TagDropdown, normal mode (no single source block).     *)
(***************************************************************************)
IsBlankText(name) == \A i \in 1..Len(name) : IsWhitespace(name[i])

variableTagsOf(workflowVariables) ==
  LET validVariables == SelectSeq(workflowVariables, LAMBDA v : ~IsBlankText(v.name))
  IN  [i \in 1..Len(validVariables) |->
         TAG_PREFIX_VARIABLE \o normalizeVariableName(validVariables[i].name)]

\* The group an accessible block without a registered configuration gets
\* (loop and parallel blocks only).
mockConfigOutputs == << <<"results", Str("array")>> >>

ContainerResultGroup(s, id, blockDistances) ==
  LET accessibleBlock == s.blocks[id]
      blockName == DisplayName(accessibleBlock)
      normalizedBlockName == normalizeBlockName(blockName)
      blockTags == TagsOf(normalizedBlockName, generateOutputPaths(mockConfigOutputs, <<>>))
  IN  Group(blockName, id, accessibleBlock.type,
            ensureRootTag(blockTags, normalizedBlockName),
            DistanceOrZero(blockDistances, id))

ConfiguredGroup(s, id, blockDistances) ==
  LET accessibleBlock == s.blocks[id]
      blockName == DisplayName(accessibleBlock)
      normalizedBlockName == normalizeBlockName(blockName)
  IN  Group(blockName, id, accessibleBlock.type,
            RootTagPolicy(AccessibleBlockTags(s, id), normalizedBlockName,
                          accessibleBlock.type),
            DistanceOrZero(blockDistances, id))

\* The requesting block itself is not skipped.
ContributesGroup_WithSelf(s, accessibleBlockId) ==
  /\ accessibleBlockId \in DOMAIN s.blocks
  /\ \/ HasConfig(s.blocks[accessibleBlockId].type)
     \/ /\ s.blocks[accessibleBlockId].type \in {"loop", "parallel"}
        /\ accessibleBlockId # containingLoopBlockIdOf(s)
        /\ accessibleBlockId # containingParallelBlockIdOf(s)

\* Does the loop over accessibleBlockIds push a group for this id?
ContributesGroup(s, accessibleBlockId) ==
  /\ accessibleBlockId \in DOMAIN s.blocks
  /\ accessibleBlockId # s.blockId
  /\ \/ HasConfig(s.blocks[accessibleBlockId].type)
     \/ /\ s.blocks[accessibleBlockId].type \in {"loop", "parallel"}
        /\ accessibleBlockId # containingLoopBlockIdOf(s)
        /\ accessibleBlockId # containingParallelBlockIdOf(s)

accessibleGroupsOf(s) ==
  LET blockDistances == blockDistancesOf(s)
      ids == SelectSeq(s.accessible, LAMBDA id : ContributesGroup(s, id))
  IN  [i \in 1..Len(ids) |->
         IF HasConfig(s.blocks[ids[i]].type)
         THEN ConfiguredGroup(s, ids[i], blockDistances)
         ELSE ContainerResultGroup(s, ids[i], blockDistances)]

GroupTags(groups) == Flatten([i \in 1..Len(groups) |-> groups[i].tags])

EmptyTagData ==
  [tags |-> <<>>, blockTagGroups |-> <<>>, regularGroups |-> <<>>,
   loopBlockGroup |-> NoGroup, parallelBlockGroup |-> NoGroup]

hasInvalidBlocks(s) == \E id \in DOMAIN s.blocks : s.blocks[id].type = ""

NormalTagData(s) ==
  IF hasInvalidBlocks(s) THEN EmptyTagData
  ELSE
  LET loopBlockGroup == loopBlockGroupOf(s)
      parallelBlockGroup == parallelBlockGroupOf(s)
      blockTagGroups == accessibleGroupsOf(s)
      allBlockTags == GroupTags(blockTagGroups)
      sorted == SortByDistance(blockTagGroups)
      contextual == (IF HasGroup(loopBlockGroup) THEN <<loopBlockGroup>> ELSE <<>>)
                      \o (IF HasGroup(parallelBlockGroup) THEN <<parallelBlockGroup>> ELSE <<>>)
  IN  [tags |-> allBlockTags \o variableTagsOf(s.variables) \o GroupTags(contextual),
       blockTagGroups |-> contextual \o sorted,
       regularGroups |-> sorted,
       loopBlockGroup |-> loopBlockGroup,
       parallelBlockGroup |-> parallelBlockGroup]

(***************************************************************************)
(* The tags memo of TagDropdown, single-source mode.                       *)
(***************************************************************************)
InputFormatTags(normalizedBlockName, inputFormatValue) ==
  LET fields == SelectSeq(inputFormatValue.value, LAMBDA f : ~IsBlankName(f.name))
  IN  [i \in 1..Len(fields) |-> normalizedBlockName \o <<".", fields[i].name>>]

SourceBlockTags(s, activeSourceBlockId) ==
  LET sourceBlock == s.blocks[activeSourceBlockId]
      blockConfig == BlockRegistry[sourceBlock.type]
      normalizedBlockName == normalizeBlockName(DisplayName(sourceBlock))
      mergedSubBlocks == getMergedSubBlocks(s, activeSourceBlockId)
      responseFormat == parseResponseFormatSafely(mergedSubBlocks["responseFormat"])
  IN  IF sourceBlock.type = "evaluator"
      THEN LET metricsValue == getSubBlockValue(s, activeSourceBlockId, "metrics")
           IN  IF NonEmptyArray(metricsValue)
               THEN MetricTags(normalizedBlockName, metricsValue)
               ELSE StaticTags(normalizedBlockName, blockConfig)
      ELSE IF sourceBlock.type = "variables"
      THEN LET variablesValue == getSubBlockValue(s, activeSourceBlockId, "variables")
           IN  IF NonEmptyArray(variablesValue)
               THEN AssignmentTags(normalizedBlockName, variablesValue)
               ELSE <<normalizedBlockName>>
      ELSE IF responseFormat.k # "undefined"
      THEN LET schemaFields == extractFieldsFromSchema(responseFormat)
           IN  IF Len(schemaFields) > 0
               THEN [i \in 1..Len(schemaFields) |->
                       normalizedBlockName \o <<".", schemaFields[i]>>]
               ELSE StaticTags(normalizedBlockName, blockConfig)
      ELSE IF Len(blockConfig.outputs) = 0
      THEN IF sourceBlock.type = "starter"
           THEN IF IsValue(mergedSubBlocks["startWorkflow"], "chat")
                THEN TagsOf(normalizedBlockName,
                            << <<"input">>, <<"conversationId">>, <<"files">> >>)
                ELSE IF NonEmptyArray(mergedSubBlocks["inputFormat"])
                THEN InputFormatTags(normalizedBlockName, mergedSubBlocks["inputFormat"])
                ELSE <<normalizedBlockName>>
           ELSE IF sourceBlock.type \in {"api_trigger", "input_trigger"}
           THEN IF NonEmptyArray(mergedSubBlocks["inputFormat"])
                THEN InputFormatTags(normalizedBlockName, mergedSubBlocks["inputFormat"])
                ELSE <<>>
           ELSE <<normalizedBlockName>>
      ELSE IF blockConfig.category = "triggers" \/ sourceBlock.type = "starter"
      THEN LET dynamicOutputs == getBlockOutputPaths(sourceBlock.type, mergedSubBlocks, FALSE)
           IN  IF Len(dynamicOutputs) > 0
               THEN TagsOf(normalizedBlockName, dynamicOutputs)
               ELSE IF sourceBlock.type = "starter" THEN <<normalizedBlockName>>
               ELSE IF sourceBlock.type = "generic_webhook" THEN <<normalizedBlockName>>
               ELSE <<>>
      ELSE IF sourceBlock.triggerMode /\ blockConfig.triggersEnabled
      THEN LET dynamicOutputs == getBlockOutputPaths(sourceBlock.type, mergedSubBlocks, TRUE)
           IN  IF Len(dynamicOutputs) > 0
               THEN TagsOf(normalizedBlockName, dynamicOutputs)
               ELSE StaticTags(normalizedBlockName, blockConfig)
      ELSE ToolOrStaticTags(s, activeSourceBlockId, normalizedBlockName, blockConfig,
                            mergedSubBlocks)

SingleSourceTagData(s) ==
  LET id == s.activeSourceBlockId
  IN  IF id \notin DOMAIN s.blocks THEN EmptyTagData
      ELSE LET sourceBlock == s.blocks[id]
               blockName == DisplayName(sourceBlock)
               normalizedBlockName == normalizeBlockName(blockName)
               single(blockTags) ==
                 [tags |-> blockTags,
                  blockTagGroups |-> <<Group(blockName, id, sourceBlock.type, blockTags, 0)>>,
                  regularGroups |-> <<Group(blockName, id, sourceBlock.type, blockTags, 0)>>,
                  loopBlockGroup |-> NoGroup,
                  parallelBlockGroup |-> NoGroup]
           IN  IF ~HasConfig(sourceBlock.type)
               THEN IF sourceBlock.type \in {"loop", "parallel"}
                    THEN single(TagsOf(normalizedBlockName,
                                       generateOutputPaths(mockConfigOutputs, <<>>)))
                    ELSE EmptyTagData
               ELSE single(RootTagPolicy(SourceBlockTags(s, id), normalizedBlockName,
                                         sourceBlock.type))

\* activeSourceBlockId = 0 stands for null.
TagData(s) ==
  IF s.activeSourceBlockId # 0 THEN SingleSourceTagData(s) ELSE NormalTagData(s)

(***************************************************************************)
(* Search filter (searchTerm, filteredTags, variableTags,                  *)
(* filteredBlockTagGroups).                                                *)
(***************************************************************************)
\* textBeforeCursor.match(/<([^>]*)$/): the text after the last "<" when no ">" follows it.
searchTermOf(inputValue, cursorPosition) ==
  LET textBeforeCursor == Slice(inputValue, 0, cursorPosition)
      open == LastIndexOf(textBeforeCursor, "<")
      rest == SliceFrom(textBeforeCursor, open + 1)
  IN  IF open = -1 THEN <<>>
      ELSE IF Includes(rest, ">") THEN <<>>
      ELSE [i \in 1..Len(rest) |-> ToLowerCase(rest[i])]

\* String.prototype.includes
IncludesText(text, part) ==
  \E i \in 0..(Len(text) - Len(part)) : SubSeq(text, i + 1, i + Len(part)) = part

MatchesSearch(tag, searchTerm) ==
  searchTerm = <<>> \/ IncludesText([i \in 1..Len(tag) |-> ToLowerCase(tag[i])], searchTerm)

filteredTagsOf(tags, searchTerm) == SelectSeq(tags, LAMBDA tag : MatchesSearch(tag, searchTerm))

shownVariableTags(tags, searchTerm) ==
  SelectSeq(filteredTagsOf(tags, searchTerm), LAMBDA tag : StartsWith(tag, TAG_PREFIX_VARIABLE))

filteredBlockTagGroupsOf(groups, searchTerm) ==
  SelectSeq([i \in 1..Len(groups) |->
               [groups[i] EXCEPT !.tags = SelectSeq(groups[i].tags,
                                                    LAMBDA tag : MatchesSearch(tag, searchTerm))]],
            LAMBDA g : Len(g.tags) > 0)

(***************************************************************************)
(* handleTagSelect: the reference inserted for a selected tag.             *)
(***************************************************************************)
contextualNames == << <<"index">>, <<"currentItem">>, <<"items">> >>

IndexedFileTag(parts) ==
  Join(SubSeq(parts, 1, Len(parts) - 1)) \o <<"[", "0", "]", ".">> \o parts[Len(parts)]

fileProcessedTag(s, tag, blockGroup) ==
  LET parts == Split(tag)
  IN  IF Len(parts) >= 2 /\ Includes(fileProperties, parts[Len(parts)]) /\ HasGroup(blockGroup)
      THEN LET fieldName == parts[Len(parts) - 1]
               fieldType == getOutputTypeForPath(s, blockGroup.blockId, fieldName,
                                                 getMergedSubBlocks(s, blockGroup.blockId))
           IN  IF fieldType = "files" THEN IndexedFileTag(parts) ELSE tag
      ELSE tag

processedTagOf(s, tag, blockGroup) ==
  IF StartsWith(tag, TAG_PREFIX_VARIABLE)
  THEN LET variableName == SliceFrom(tag, Len(TAG_PREFIX_VARIABLE))
       IN  IF \E i \in 1..Len(s.variables) :
                 normalizeVariableName(s.variables[i].name) = variableName
           THEN tag
           ELSE fileProcessedTag(s, tag, blockGroup)
  ELSE IF HasGroup(blockGroup) /\ blockGroup.blockType \in {"loop", "parallel"}
  THEN IF ~Includes(tag, ".") /\ Includes(contextualNames, tag)
       THEN <<blockGroup.blockType, ".">> \o tag
       ELSE tag
  ELSE fileProcessedTag(s, tag, blockGroup)

\* A closing ">" after the cursor is consumed without looking at the text before it.
remainingTextAfterCursor_Unchecked(textAfterCursor) ==
  LET nextCloseBracket == IndexOf(textAfterCursor, ">")
  IN  IF nextCloseBracket # -1
      THEN SliceFrom(textAfterCursor, nextCloseBracket + 1)
      ELSE textAfterCursor

remainingTextAfterCursorOf(textAfterCursor) ==
  LET nextCloseBracket == IndexOf(textAfterCursor, ">")
  IN  IF nextCloseBracket # -1
         /\ IsPartialReference(Slice(textAfterCursor, 0, nextCloseBracket))
      THEN SliceFrom(textAfterCursor, nextCloseBracket + 1)
      ELSE textAfterCursor

\* The outcome of one call: whether onSelect and onClose were called and with what.
NoCall ==
  [op |-> "none", tag |-> <<>>, group |-> NoGroup, liveValue |-> <<>>, liveCursor |-> 0,
   onSelect |-> FALSE, onClose |-> FALSE, processedTag |-> <<>>, newValue |-> <<>>]

newValueOf(textBeforeCursor, lastOpenBracket, processedTag, remainingTextAfterCursor) ==
  Slice(textBeforeCursor, 0, lastOpenBracket) \o <<"<">> \o processedTag
    \o <<">">> \o remainingTextAfterCursor

\* The early return on a missing "<" is absent: the tag is put at the start of the text.
handleTagSelect_Unguarded(s, liveValue, liveCursor, tag, blockGroup) ==
  LET textBeforeCursor == Slice(liveValue, 0, liveCursor)
      textAfterCursor == SliceFrom(liveValue, liveCursor)
      lastOpenBracket == LastIndexOf(textBeforeCursor, "<")
      processedTag == processedTagOf(s, tag, blockGroup)
      newValue == newValueOf(textBeforeCursor,
                             IF lastOpenBracket = -1 THEN 0 ELSE lastOpenBracket,
                             processedTag, remainingTextAfterCursorOf(textAfterCursor))
  IN  [op |-> "select", tag |-> tag, group |-> blockGroup,
       liveValue |-> liveValue, liveCursor |-> liveCursor,
       onSelect |-> TRUE, onClose |-> TRUE,
       processedTag |-> processedTag, newValue |-> newValue]

handleTagSelect(s, liveValue, liveCursor, tag, blockGroup) ==
  LET textBeforeCursor == Slice(liveValue, 0, liveCursor)
      textAfterCursor == SliceFrom(liveValue, liveCursor)
      lastOpenBracket == LastIndexOf(textBeforeCursor, "<")
      processedTag == processedTagOf(s, tag, blockGroup)
      newValue == newValueOf(textBeforeCursor, lastOpenBracket, processedTag,
                             remainingTextAfterCursorOf(textAfterCursor))
  IN  IF lastOpenBracket = -1
      THEN [NoCall EXCEPT !.op = "select", !.tag = tag, !.group = blockGroup,
                          !.liveValue = liveValue, !.liveCursor = liveCursor]
      ELSE [op |-> "select", tag |-> tag, group |-> blockGroup,
            liveValue |-> liveValue, liveCursor |-> liveCursor,
            onSelect |-> TRUE, onClose |-> TRUE,
            processedTag |-> processedTag, newValue |-> newValue]

(***************************************************************************)
(* State.                                                                  *)
(*   blocks .. workflowSubBlockValues   the workflow, variables and        *)
(*                                      sub-block stores                   *)
(*   blockId .. cursorPosition          the props of TagDropdown and the   *)
(*                                      accessible-prefix hook's result    *)
(*   domFocused, domValue, domCursor    document.activeElement: the input  *)
(*                                      as the browser holds it, which may *)
(*                                      be one keystroke ahead of the props*)
(*   tagData                            the result of the tags memo        *)
(*   last                               the outcome of the latest          *)
(*                                      handleTagSelect call               *)
(***************************************************************************)
VARIABLES blocks, loops, parallels, edges, workflowVariables, workflowSubBlockValues,
          blockId, accessible, activeSourceBlockId,
          visible, inputValue, cursorPosition,
          domFocused, domValue, domCursor, domPending,
          tagData, last,
          selectedIndex, hoveredNested, inSubmenu, submenuIndex, parentHovered, submenuHovered,
          permissionRows, redisCache, permissionCalls,
          providers, modelFetches,
          serve,
          childWorkflowId, childActiveVersion, childIsDeployed, isLoadingChildVersion,
          childFetches

storeVars == <<blocks, loops, parallels, edges, workflowVariables, workflowSubBlockValues>>

scopeVars == <<blockId, accessible, activeSourceBlockId>>

textVars == <<visible, inputValue, cursorPosition, domFocused, domValue, domCursor, domPending>>

\* The keyboard and hover state of TagDropdown.
keyVars == <<selectedIndex, hoveredNested, inSubmenu, submenuIndex, parentHovered, submenuHovered>>

dropdownVars == <<storeVars, scopeVars, textVars, tagData, last, keyVars>>

\* The permissions table, the Redis cache and the getUserEntityPermissions calls.
permissionVars == <<permissionRows, redisCache, permissionCalls>>

\* useProvidersStore and the fetches it has started.
providerVars == <<providers, modelFetches>>

\* WorkflowBlock's child-deployment state and the fetches its effect has started.
childVars == <<childWorkflowId, childActiveVersion, childIsDeployed, isLoadingChildVersion,
               childFetches>>

\* The state outside TagDropdown; `serve` is the files GET handler's request.
serviceVars == <<permissionVars, providerVars, serve, childVars>>

vars == <<dropdownVars, serviceVars>>

\* hoveredNested: the entry whose submenu is shown, null when there is none.
\* The string `${group.blockId}-${nestedTag.key}` is kept as its two parts.
NoHover == [blockId |-> 0, key |-> <<>>, index |-> -1]

Hover(id, key, index) == [blockId |-> id, key |-> key, index |-> index]

\* parentHovered: the parent key under the pointer, null when there is none.
NoParent == [blockId |-> 0, key |-> <<>>]

\* The state of a TagDropdown that has just been mounted.
KeysIdle ==
  /\ selectedIndex = 0
  /\ hoveredNested = NoHover
  /\ inSubmenu = FALSE
  /\ submenuIndex = 0
  /\ parentHovered = NoParent
  /\ submenuHovered = FALSE

ProviderNames == {"base", "ollama", "openrouter"}

\* No request is being served.
NoRequest ==
  [pc |-> "idle", path |-> <<>>, cloudStorage |-> FALSE, contextParam |-> "none",
   legacyBucketType |-> "none", authChecked |-> FALSE, success |-> FALSE, userId |-> FALSE,
   accessChecked |-> FALSE, hasAccess |-> FALSE, found |-> FALSE, fileRead |-> "none",
   response |-> [kind |-> "none", message |-> <<>>]]

\* Nothing has happened outside TagDropdown: no permission rows, an empty
\* cache, no calls, idle provider and child-deployment state, no request.
\* The version 0 stands for null, the workflow id 0 for none.
ServicesIdle ==
  /\ permissionRows = {}
  /\ redisCache = "absent"
  /\ permissionCalls = <<>>
  /\ providers = [p \in ProviderNames |-> [models |-> <<>>, isLoading |-> FALSE]]
  /\ modelFetches = [p \in ProviderNames |-> [pc |-> "none", ok |-> FALSE, models |-> <<>>]]
  /\ serve = NoRequest
  /\ childWorkflowId = 0
  /\ childActiveVersion = 0
  /\ childIsDeployed = FALSE
  /\ isLoadingChildVersion = FALSE
  /\ childFetches = <<>>

Snap ==
  [blocks |-> blocks, loops |-> loops, parallels |-> parallels, edges |-> edges,
   variables |-> workflowVariables, live |-> workflowSubBlockValues,
   blockId |-> blockId, accessible |-> accessible,
   activeSourceBlockId |-> activeSourceBlockId]

Block(type, name) == [type |-> type, name |-> name, triggerMode |-> FALSE, subBlocks |-> EmptySub]

Alphabet == {"<", ">", "q", " "}

liveCursorOf == IF domFocused THEN domCursor ELSE cursorPosition

liveValueOf == IF domFocused THEN domValue ELSE inputValue

searchTerm == searchTermOf(inputValue, cursorPosition)

variableTags == shownVariableTags(tagData.tags, searchTerm)

filteredBlockTagGroups == filteredBlockTagGroupsOf(tagData.blockTagGroups, searchTerm)

(***************************************************************************)
(* Nested display of the groups (nestedBlockTagGroups) and the flat        *)
(* navigable order (orderedTags).  An entry is a parent with children or a *)
(* direct entry with a fullTag.  Object.entries(groupedTags) enumerates    *)
(* the parents in insertion order (no parent key is an integer index).     *)
(***************************************************************************)
ChildEntry(parent, child, tag) ==
  [key |-> parent \o <<".">> \o child, display |-> child, fullTag |-> tag]

ParentEntry(parent, children) ==
  [key |-> parent, display |-> parent, hasFullTag |-> FALSE, fullTag |-> <<>>,
   children |-> children]

DirectEntry(key, tag) ==
  [key |-> key, display |-> key, hasFullTag |-> TRUE, fullTag |-> tag, children |-> <<>>]

\* Only tags of four or more segments are grouped.
IsGroupedTag_FourParts(tag) == Len(Split(tag)) >= 4

\* tagParts.length >= 3
IsGroupedTag(tag) == Len(Split(tag)) >= 3

\* The children of groupedTags[parent], in the order of group.tags.
childrenOf(tags, parent) ==
  LET own == SelectSeq(tags, LAMBDA tag : IsGroupedTag(tag) /\ Split(tag)[2] = parent)
  IN  [i \in 1..Len(own) |->
         ChildEntry(parent, Join(SubSeq(Split(own[i]), 3, Len(Split(own[i])))), own[i])]

\* The keys of groupedTags, in the order in which they were first assigned.
groupedParentsOf(tags) ==
  LET indexes == SelectSeq([i \in 1..Len(tags) |-> i],
                           LAMBDA i : /\ IsGroupedTag(tags[i])
                                      /\ \A j \in 1..(i - 1) :
                                           ~(IsGroupedTag(tags[j])
                                             /\ Split(tags[j])[2] = Split(tags[i])[2]))
  IN  [k \in 1..Len(indexes) |-> Split(tags[indexes[k]])[2]]

directTagsOf(group) ==
  LET direct == SelectSeq(group.tags, LAMBDA tag : ~IsGroupedTag(tag))
  IN  [i \in 1..Len(direct) |->
         LET tagParts == Split(direct[i])
             path == Join(SubSeq(tagParts, 2, Len(tagParts)))
         IN  IF group.blockType \in {"loop", "parallel"} /\ Len(tagParts) = 1
             THEN DirectEntry(direct[i], direct[i])
             ELSE DirectEntry(IF path # <<>> THEN path ELSE group.blockName, direct[i])]

nestedTagsOf(group) ==
  LET parents == groupedParentsOf(group.tags)
  IN  [k \in 1..Len(parents) |-> ParentEntry(parents[k], childrenOf(group.tags, parents[k]))]
        \o directTagsOf(group)

nestedBlockTagGroupsOf(groups) ==
  [i \in 1..Len(groups) |-> [group |-> groups[i], nestedTags |-> nestedTagsOf(groups[i])]]

\* The tag that stands for an entry in the flat order.
visualTagsOfEntry(nestedTag) ==
  IF Len(nestedTag.children) > 0 THEN <<nestedTag.children[1].fullTag>>
  ELSE IF nestedTag.hasFullTag THEN <<nestedTag.fullTag>>
  ELSE <<>>

visualTagsOfGroup(nestedGroup) ==
  Flatten([k \in 1..Len(nestedGroup.nestedTags) |-> visualTagsOfEntry(nestedGroup.nestedTags[k])])

orderedTagsOf(shownVariables, nestedGroups) ==
  shownVariables \o Flatten([i \in 1..Len(nestedGroups) |-> visualTagsOfGroup(nestedGroups[i])])

nestedBlockTagGroups == nestedBlockTagGroupsOf(filteredBlockTagGroups)

orderedTags == orderedTagsOf(variableTags, nestedBlockTagGroups)

Max(a, b) == IF a >= b THEN a ELSE b

Min(a, b) == IF a <= b THEN a ELSE b

\* The two selectedIndex effects that run after a render in which the handlers
\* left selectedIndex at `index`: a changed search term queues 0, then an index
\* beyond the list queues the last position; the update queued last is applied.
AfterRender(index) ==
  LET newSearchTerm == searchTermOf(inputValue', cursorPosition')
      newOrderedTags ==
        orderedTagsOf(shownVariableTags(tagData'.tags, newSearchTerm),
                      nestedBlockTagGroupsOf(
                        filteredBlockTagGroupsOf(tagData'.blockTagGroups, newSearchTerm)))
  IN  IF index = 0 THEN 0  \* both effects leave the index 0 at 0
      ELSE IF index >= Len(newOrderedTags) THEN Max(0, Len(newOrderedTags) - 1)
      ELSE IF newSearchTerm # searchTerm THEN 0
      ELSE index

\* A render that no keyboard or pointer handler has caused.
RenderEffects ==
  /\ selectedIndex' = AfterRender(selectedIndex)
  /\ UNCHANGED <<hoveredNested, inSubmenu, submenuIndex, parentHovered, submenuHovered>>

\* if (!visible || tags.length === 0 || orderedTags.length === 0) return null
Rendered ==
  /\ visible
  /\ Len(tagData.tags) > 0
  /\ (Len(variableTags) > 0 \/ Len(filteredBlockTagGroups) > 0)

(***************************************************************************)
(* Actions on the input text.                                              *)
(***************************************************************************)
\* The host re-renders the dropdown with the input's current value and caret.
HostSync ==
  /\ domPending
  /\ inputValue' = domValue
  /\ cursorPosition' = domCursor
  /\ domPending' = FALSE
  /\ last' = NoCall
  /\ UNCHANGED <<storeVars, scopeVars, visible, domFocused, domValue, domCursor, tagData>>
  /\ RenderEffects
  /\ UNCHANGED serviceVars

\* The host shows or hides the dropdown.
HostSetVisible ==
  /\ visible' = ~visible
  /\ last' = NoCall
  /\ UNCHANGED <<storeVars, scopeVars, inputValue, cursorPosition,
                 domFocused, domValue, domCursor, domPending, tagData>>
  /\ RenderEffects
  /\ UNCHANGED serviceVars

\* The user types one character that the props do not reflect yet.
DomType(ch) ==
  /\ ~domPending
  /\ Len(domValue) < MaxLen
  /\ domValue' = Slice(domValue, 0, domCursor) \o <<ch>> \o SliceFrom(domValue, domCursor)
  /\ domCursor' = domCursor + 1
  /\ domPending' = TRUE
  /\ last' = NoCall
  /\ UNCHANGED <<storeVars, scopeVars, visible, inputValue, cursorPosition, domFocused, tagData>>
  /\ RenderEffects
  /\ UNCHANGED serviceVars

\* The user moves the caret; the props do not reflect it yet.
DomMoveCaret(c) ==
  /\ ~domPending
  /\ c # domCursor
  /\ domCursor' = c
  /\ domPending' = TRUE
  /\ last' = NoCall
  /\ UNCHANGED <<storeVars, scopeVars, visible, inputValue, cursorPosition,
                 domFocused, domValue, tagData>>
  /\ RenderEffects
  /\ UNCHANGED serviceVars

\* The input gains or loses the focus.
DomFocusChange ==
  /\ domFocused' = ~domFocused
  /\ last' = NoCall
  /\ UNCHANGED <<storeVars, scopeVars, visible, inputValue, cursorPosition,
                 domValue, domCursor, domPending, tagData>>
  /\ RenderEffects
  /\ UNCHANGED serviceVars

\* A click on a variable entry (createTagEventHandlers with no group).
SelectVariableTag ==
  /\ Rendered
  /\ \E i \in 1..Len(variableTags) :
       last' = handleTagSelect(Snap, liveValueOf, liveCursorOf, variableTags[i], NoGroup)
  /\ UNCHANGED <<storeVars, scopeVars, textVars, tagData>>
  /\ RenderEffects
  /\ UNCHANGED serviceVars

\* A click on an entry of a block group, direct or in a submenu.
SelectBlockTag ==
  /\ Rendered
  /\ \E g \in 1..Len(filteredBlockTagGroups) :
       \E i \in 1..Len(filteredBlockTagGroups[g].tags) :
         last' = handleTagSelect(Snap, liveValueOf, liveCursorOf,
                                 filteredBlockTagGroups[g].tags[i],
                                 [filteredBlockTagGroups[g] EXCEPT
                                    !.tags = tagData.blockTagGroups[
                                      CHOOSE k \in 1..Len(tagData.blockTagGroups) :
                                        tagData.blockTagGroups[k].blockId
                                          = filteredBlockTagGroups[g].blockId
                                        /\ tagData.blockTagGroups[k].blockType
                                          = filteredBlockTagGroups[g].blockType].tags])
  /\ UNCHANGED <<storeVars, scopeVars, textVars, tagData>>
  /\ RenderEffects
  /\ UNCHANGED serviceVars

(***************************************************************************)
(* Specification of tag insertion: a fixed workflow (a mail block "Q"      *)
(* and a for loop around the requesting block, one variable "q"),          *)
(* every input text up to MaxLen tokens.                                   *)
(***************************************************************************)
InitSelect ==
  /\ blocks = (2 :> Block("mail", <<"Q">>)) @@ (3 :> Block("loop", <<"Loop">>))
                @@ (4 :> Block("agent", <<"B">>))
  /\ loops = (3 :> [nodes |-> {4}, loopType |-> "for"])
  /\ parallels = <<>>
  /\ edges = << [source |-> 2, target |-> 3], [source |-> 3, target |-> 4] >>
  /\ workflowVariables = << [id |-> "v1", name |-> <<"q">>, type |-> "string"] >>
  /\ workflowSubBlockValues = <<>>
  /\ blockId = 4
  /\ accessible = <<2, 3>>
  /\ activeSourceBlockId = 0
  /\ visible = FALSE
  /\ inputValue = <<>>
  /\ cursorPosition = 0
  /\ domFocused = FALSE
  /\ domValue = <<>>
  /\ domCursor = 0
  /\ domPending = FALSE
  /\ tagData = TagData(Snap)
  /\ last = NoCall
  /\ KeysIdle
  /\ ServicesIdle

NextSelect ==
  \/ HostSync
  \/ HostSetVisible
  \/ \E ch \in Alphabet : DomType(ch)
  \/ \E c \in 0..Len(domValue) : DomMoveCaret(c)
  \/ DomFocusChange
  \/ SelectVariableTag
  \/ SelectBlockTag

SpecSelect == InitSelect /\ [][NextSelect]_vars

(***************************************************************************)
(* Actions on the workflow.  Every change of the stores or of the props    *)
(* re-renders TagDropdown, which recomputes the tags memo.                 *)
(***************************************************************************)
Ids == 1..MaxBlocks

RECURSIVE AscendingSeq(_)
AscendingSeq(S) == IF S = {} THEN <<>> ELSE <<MinOf(S)>> \o AscendingSeq(S \ {MinOf(S)})

Remove(f, id) == [x \in (DOMAIN f) \ {id} |-> f[x]]

Recompute == tagData' = TagData(Snap')

\* A block is dropped on the canvas.  A loop or parallel block comes with its
\* (empty) container entry.
AddBlock(id, type, name) ==
  /\ id \notin DOMAIN blocks
  /\ blocks' = blocks @@ (id :> Block(type, name))
  /\ loops' = IF type = "loop" THEN loops @@ (id :> [nodes |-> {}, loopType |-> ""])
              ELSE loops
  /\ parallels' = IF type = "parallel"
                  THEN parallels @@ (id :> [nodes |-> {}, parallelType |-> ""])
                  ELSE parallels
  /\ UNCHANGED <<edges, workflowVariables, workflowSubBlockValues, scopeVars, textVars>>
  /\ last' = NoCall
  /\ Recompute
  /\ RenderEffects
  /\ UNCHANGED serviceVars

\* A block is deleted, with its container entry and its memberships.
RemoveBlock(id) ==
  /\ id \in DOMAIN blocks
  /\ blocks' = Remove(blocks, id)
  /\ loops' = [l \in (DOMAIN loops) \ {id} |->
                 [loops[l] EXCEPT !.nodes = loops[l].nodes \ {id}]]
  /\ parallels' = [q \in (DOMAIN parallels) \ {id} |->
                     [parallels[q] EXCEPT !.nodes = parallels[q].nodes \ {id}]]
  /\ workflowSubBlockValues' = Remove(workflowSubBlockValues, id)
  /\ UNCHANGED <<edges, workflowVariables, scopeVars, textVars>>
  /\ last' = NoCall
  /\ Recompute
  /\ RenderEffects
  /\ UNCHANGED serviceVars

RenameBlock(id, name) ==
  /\ id \in DOMAIN blocks
  /\ blocks[id].name # name
  /\ blocks' = [blocks EXCEPT ![id].name = name]
  /\ UNCHANGED <<loops, parallels, edges, workflowVariables, workflowSubBlockValues,
                 scopeVars, textVars>>
  /\ last' = NoCall
  /\ Recompute
  /\ RenderEffects
  /\ UNCHANGED serviceVars

\* A block is moved into or out of a loop.
ToggleLoopNode(loopId, id) ==
  /\ loopId \in DOMAIN loops
  /\ id \in DOMAIN blocks
  /\ id # loopId
  /\ id \in loops[loopId].nodes \/ Cardinality(loops[loopId].nodes) < MaxNodes
  /\ loops' = [loops EXCEPT ![loopId].nodes =
                 IF id \in @ THEN @ \ {id} ELSE @ \cup {id}]
  /\ UNCHANGED <<blocks, parallels, edges, workflowVariables, workflowSubBlockValues,
                 scopeVars, textVars>>
  /\ last' = NoCall
  /\ Recompute
  /\ RenderEffects
  /\ UNCHANGED serviceVars

\* A block is moved into or out of a parallel.
ToggleParallelNode(parallelId, id) ==
  /\ parallelId \in DOMAIN parallels
  /\ id \in DOMAIN blocks
  /\ id # parallelId
  /\ id \in parallels[parallelId].nodes \/ Cardinality(parallels[parallelId].nodes) < MaxNodes
  /\ parallels' = [parallels EXCEPT ![parallelId].nodes =
                     IF id \in @ THEN @ \ {id} ELSE @ \cup {id}]
  /\ UNCHANGED <<blocks, loops, edges, workflowVariables, workflowSubBlockValues,
                 scopeVars, textVars>>
  /\ last' = NoCall
  /\ Recompute
  /\ RenderEffects
  /\ UNCHANGED serviceVars

SetLoopType(loopId, loopType) ==
  /\ loopId \in DOMAIN loops
  /\ loops[loopId].loopType # loopType
  /\ loops' = [loops EXCEPT ![loopId].loopType = loopType]
  /\ UNCHANGED <<blocks, parallels, edges, workflowVariables, workflowSubBlockValues,
                 scopeVars, textVars>>
  /\ last' = NoCall
  /\ Recompute
  /\ RenderEffects
  /\ UNCHANGED serviceVars

SetParallelType(parallelId, parallelType) ==
  /\ parallelId \in DOMAIN parallels
  /\ parallels[parallelId].parallelType # parallelType
  /\ parallels' = [parallels EXCEPT ![parallelId].parallelType = parallelType]
  /\ UNCHANGED <<blocks, loops, edges, workflowVariables, workflowSubBlockValues,
                 scopeVars, textVars>>
  /\ last' = NoCall
  /\ Recompute
  /\ RenderEffects
  /\ UNCHANGED serviceVars

\* The stores drop the container entry of a loop or parallel block (the entry is
\* rebuilt from the blocks; the block can be seen without it).
DropContainerEntry(id) ==
  /\ id \in DOMAIN loops \/ id \in DOMAIN parallels
  /\ loops' = Remove(loops, id)
  /\ parallels' = Remove(parallels, id)
  /\ UNCHANGED <<blocks, edges, workflowVariables, workflowSubBlockValues,
                 scopeVars, textVars>>
  /\ last' = NoCall
  /\ Recompute
  /\ RenderEffects
  /\ UNCHANGED serviceVars

ToggleTriggerMode(id) ==
  /\ id \in DOMAIN blocks
  /\ blocks' = [blocks EXCEPT ![id].triggerMode = ~@]
  /\ UNCHANGED <<loops, parallels, edges, workflowVariables, workflowSubBlockValues,
                 scopeVars, textVars>>
  /\ last' = NoCall
  /\ Recompute
  /\ RenderEffects
  /\ UNCHANGED serviceVars

\* The user edits a sub-block: the live store gets the value.
SetLiveValue(id, subId, value) ==
  /\ id \in DOMAIN blocks
  /\ LET current == IF id \in DOMAIN workflowSubBlockValues
                    THEN workflowSubBlockValues[id] ELSE EmptySub
     IN  /\ ~(current[subId].has /\ current[subId].value = value)
         /\ workflowSubBlockValues' =
              [x \in (DOMAIN workflowSubBlockValues) \cup {id} |->
                 IF x = id THEN [current EXCEPT ![subId] = Val(value)]
                 ELSE workflowSubBlockValues[x]]
  /\ UNCHANGED <<blocks, loops, parallels, edges, workflowVariables, scopeVars, textVars>>
  /\ last' = NoCall
  /\ Recompute
  /\ RenderEffects
  /\ UNCHANGED serviceVars

\* The dropdown is opened for another block.
OpenFor(id) ==
  /\ id # blockId
  /\ blockId' = id
  /\ UNCHANGED <<storeVars, accessible, activeSourceBlockId, textVars>>
  /\ last' = NoCall
  /\ Recompute
  /\ RenderEffects
  /\ UNCHANGED serviceVars

\* useAccessibleReferencePrefixes returns another set.
SetAccessible(ids) ==
  /\ AscendingSeq(ids) # accessible
  /\ accessible' = AscendingSeq(ids)
  /\ UNCHANGED <<storeVars, blockId, activeSourceBlockId, textVars>>
  /\ last' = NoCall
  /\ Recompute
  /\ RenderEffects
  /\ UNCHANGED serviceVars

(***************************************************************************)
(* Specification of the accessible block groups: up to MaxBlocks blocks    *)
(* (agent, starter, mail and loop blocks, named or not), every             *)
(* accessible-prefix set over them, every requesting block.                *)
(***************************************************************************)
EmptyWorkflow ==
  /\ loops = <<>>
  /\ parallels = <<>>
  /\ edges = <<>>
  /\ workflowVariables = <<>>
  /\ workflowSubBlockValues = <<>>
  /\ activeSourceBlockId = 0
  /\ visible = TRUE
  /\ inputValue = <<"<">>
  /\ cursorPosition = 1
  /\ domFocused = FALSE
  /\ domValue = <<"<">>
  /\ domCursor = 1
  /\ domPending = FALSE
  /\ last = NoCall
  /\ KeysIdle
  /\ ServicesIdle

Init ==
  /\ EmptyWorkflow
  /\ blocks = <<>>
  /\ blockId = 1
  /\ accessible = <<>>
  /\ tagData = TagData(Snap)

BlockNames == {<<>>, <<"A">>}

Next ==
  \/ \E id \in Ids : \E type \in {"agent", "starter", "mail", "loop"} : AddBlock(id, type, <<>>)
  \/ \E id \in Ids : RemoveBlock(id)
  \/ \E id \in Ids : \E name \in BlockNames : RenameBlock(id, name)
  \/ \E loopId \in Ids : \E id \in Ids : ToggleLoopNode(loopId, id)
  \/ \E id \in Ids : OpenFor(id)
  \/ \E ids \in SUBSET Ids : SetAccessible(ids)

Spec == Init /\ [][Next]_vars

(***************************************************************************)
(* Specification of the contextual groups: up to MaxBlocks blocks (agent,  *)
(* loop and parallel blocks), containers of up to MaxNodes members of each *)
(* type, every requesting block.                                           *)
(***************************************************************************)
InitContext ==
  /\ EmptyWorkflow
  /\ blocks = <<>>
  /\ blockId = 1
  /\ accessible = AscendingSeq(Ids)
  /\ tagData = TagData(Snap)

NextContext ==
  \/ \E id \in Ids : \E type \in {"agent", "loop", "parallel"} : AddBlock(id, type, <<>>)
  \/ \E id \in Ids : RemoveBlock(id)
  \/ \E loopId \in Ids : \E id \in Ids : ToggleLoopNode(loopId, id)
  \/ \E parallelId \in Ids : \E id \in Ids : ToggleParallelNode(parallelId, id)
  \/ \E loopId \in Ids : \E loopType \in {"", "for", "forEach"} :
       SetLoopType(loopId, loopType)
  \/ \E parallelId \in Ids : \E parallelType \in {"", "count", "collection"} :
       SetParallelType(parallelId, parallelType)
  \/ \E id \in Ids : DropContainerEntry(id)
  \/ \E id \in Ids : OpenFor(id)

SpecContext == InitContext /\ [][NextContext]_vars

(***************************************************************************)
(* Specification of what a selection inserts: block 1 is the accessible    *)
(* source block (agent, starter, mail or mail_trigger, in every            *)
(* configuration of trigger mode, start mode, input format and operation), *)
(* block 2 a loop or parallel of every type around the requesting block 3. *)
(* The input is "<" with the cursor behind it.                             *)
(***************************************************************************)
InitInsert ==
  /\ EmptyWorkflow
  /\ blocks = (3 :> Block("agent", <<"B">>))
  /\ blockId = 3
  /\ accessible = <<1, 2>>
  /\ tagData = TagData(Snap)

fileInputFormat == << [name |-> "doc", type |-> "files"], [name |-> "note", type |-> "string"] >>

NextInsert ==
  \/ \E type \in {"agent", "starter", "mail", "mail_trigger"} : AddBlock(1, type, <<>>)
  \/ \E type \in {"loop", "parallel"} : AddBlock(2, type, <<>>)
  \/ \E id \in {1, 2} : RemoveBlock(id)
  \/ ToggleLoopNode(2, 3)
  \/ ToggleParallelNode(2, 3)
  \/ \E loopType \in {"", "forEach"} : SetLoopType(2, loopType)
  \/ \E parallelType \in {"", "collection"} : SetParallelType(2, parallelType)
  \/ ToggleTriggerMode(1)
  \/ \E mode \in {"chat", "manual"} : SetLiveValue(1, "startWorkflow", mode)
  \/ \E operation \in {"send", "read"} : SetLiveValue(1, "operation", operation)
  \/ SetLiveValue(1, "inputFormat", fileInputFormat)
  \/ SelectBlockTag

SpecInsert == InitInsert /\ [][NextInsert]_vars

(***************************************************************************)
(* Properties of tag insertion (SpecSelect).                               *)
(***************************************************************************)
lastTextBeforeCursor == Slice(last.liveValue, 0, last.liveCursor)

lastTextAfterCursor == SliceFrom(last.liveValue, last.liveCursor)

lastOpenIndex == LastIndexOf(lastTextBeforeCursor, "<")

\* The position right after the ">" that closes the inserted tag.
insertedEnd == lastOpenIndex + Len(last.processedTag) + 2

\* C2: after an insertion, checkTagTrigger on the new text with the cursor right
\* after the inserted closing ">" does not show the dropdown.
C2_RoundTrip ==
  last.onSelect =>
    /\ insertedEnd <= Len(last.newValue)
    /\ last.newValue[insertedEnd] = ">"
    /\ ~checkTagTrigger(last.newValue, insertedEnd)

\* An insertion in front of text that holds a further "<".
C2_Witness ==
  /\ last.onSelect
  /\ Includes(lastTextAfterCursor, "<")
  /\ lastOpenIndex > 0

\* C3 (as claimed): a "<" that a ">" before the cursor already closes is not the
\* start of the replaced span, so the text up to that ">" is kept.
C3_CompletedReferenceKept ==
  (last.onSelect /\ LastIndexOf(lastTextBeforeCursor, ">") > lastOpenIndex) =>
    StartsWith(last.newValue,
               Slice(lastTextBeforeCursor, 0, LastIndexOf(lastTextBeforeCursor, ">") + 1))

\* C4: the text after the inserted "<tag>" is the text after the first ">" behind
\* the cursor when only reference characters lie between the cursor and that ">",
\* and all the text after the cursor otherwise.
C4_ClosingDelimiter ==
  last.onSelect =>
    LET after == lastTextAfterCursor
        closes == {k \in 1..Len(after) :
                     after[k] = ">" /\ \A j \in 1..(k - 1) : after[j] \in {"q", ".", "_"}}
        rest == SliceFrom(last.newValue, insertedEnd)
    IN  /\ SubSeq(last.newValue, 1, insertedEnd)
             = SubSeq(lastTextBeforeCursor, 1, lastOpenIndex)
                 \o <<"<">> \o last.processedTag \o <<">">>
        /\ \A k \in closes : rest = SubSeq(after, k + 1, Len(after))
        /\ closes = {} => rest = after

\* Both cases: a typed partial reference with its ">" is consumed ...
C4_Witness ==
  /\ last.onSelect
  /\ Len(lastTextAfterCursor) >= 2
  /\ lastTextAfterCursor[1] = "q"
  /\ lastTextAfterCursor[2] = ">"
  /\ SliceFrom(last.newValue, insertedEnd) = SliceFrom(lastTextAfterCursor, 2)

\* C5: a selection with no "<" before the cursor calls neither onSelect nor
\* onClose and leaves the input as it is.
C5_NoOpenDelimiter ==
  [][(last'.op = "select"
      /\ LastIndexOf(Slice(last'.liveValue, 0, last'.liveCursor), "<") = -1)
     => (/\ ~last'.onSelect
         /\ ~last'.onClose
         /\ last'.newValue = <<>>
         /\ UNCHANGED textVars)]_vars

C5_Witness ==
  /\ last.op = "select"
  /\ lastOpenIndex = -1
  /\ Len(last.liveValue) > 0
  /\ last.liveCursor > 0
  /\ ~last.onSelect

(***************************************************************************)
(* Properties of the accessible block groups (Spec).                       *)
(***************************************************************************)
Elems(seq) == {seq[i] : i \in 1..Len(seq)}

\* The tags the requesting block has as a source of other blocks.
ownOutputTags ==
  IF blockId \notin DOMAIN blocks THEN {}
  ELSE IF HasConfig(blocks[blockId].type)
  THEN Elems(ConfiguredGroup(Snap, blockId, <<>>).tags)
  ELSE IF blocks[blockId].type \in {"loop", "parallel"}
  THEN Elems(ContainerResultGroup(Snap, blockId, <<>>).tags)
  ELSE {}

\* The block tags of the flat list (the tags before the variable and contextual tags).
flatBlockTags == SubSeq(tagData.tags, 1, Len(GroupTags(tagData.regularGroups)))

requestingName == normalizeBlockName(DisplayName(blocks[blockId]))

lastParts == Split(last.tag)

lastBlockSelection ==
  /\ last.op = "select"
  /\ last.onSelect
  /\ HasGroup(last.group)

\* The path of the field that holds the selected property, inside its block.
lastParentPath == Join(SubSeq(lastParts, 2, Len(lastParts) - 1))

\* C6 (as claimed): a file property of a field whose type is 'files', at any
\* depth, gets the [0] accessor; a property of any other field gets none.
C6_FilePropertyIndexing ==
  (/\ lastBlockSelection
   /\ last.group.blockType \notin {"loop", "parallel"}
   /\ Len(lastParts) >= 3
   /\ lastParts[Len(lastParts)] \in Elems(fileProperties))
  => LET parentType == getOutputTypeForPath(Snap, last.group.blockId, lastParentPath,
                                            getMergedSubBlocks(Snap, last.group.blockId))
     IN  last.processedTag =
           IF parentType = "files"
           THEN Join(SubSeq(lastParts, 1, Len(lastParts) - 1))
                  \o <<"[", "0", "]", ".">> \o lastParts[Len(lastParts)]
           ELSE last.tag

\* C7 (as claimed): each contextual tag of a loop or parallel group is inserted
\* qualified by the kind of the container.
C7_ContextualTagQualified ==
  (/\ lastBlockSelection
   /\ last.group.blockType \in {"loop", "parallel"}
   /\ last.tag \in {<<"index">>, <<"currentIteration">>, <<"currentItem">>, <<"items">>})
  => /\ last.processedTag = <<last.group.blockType, ".">> \o last.tag
     /\ last.newValue = <<"<", last.group.blockType, ".">> \o last.tag \o <<">">>

(***************************************************************************)
(* Properties of the contextual groups (SpecContext).                      *)
(***************************************************************************)
itemTags == {<<"currentItem">>, <<"items">>}

NoDuplicates(seq) == Cardinality(Elems(seq)) = Len(seq)

\* C8: the loop group holds index and currentIteration, and currentItem and items
\* exactly for a forEach loop; the parallel group holds index, and currentItem and
\* items exactly for a collection parallel.
C8_ContextualTagSets ==
  /\ HasGroup(tagData.loopBlockGroup) =>
       LET g == tagData.loopBlockGroup
       IN  /\ g \in Elems(tagData.blockTagGroups)
           /\ g.blockType = "loop"
           /\ NoDuplicates(g.tags)
           /\ Elems(g.tags) = {<<"index">>, <<"currentIteration">>}
                \cup (IF loops[g.blockId].loopType = "forEach" THEN itemTags ELSE {})
  /\ HasGroup(tagData.parallelBlockGroup) =>
       LET g == tagData.parallelBlockGroup
       IN  /\ g \in Elems(tagData.blockTagGroups)
           /\ g.blockType = "parallel"
           /\ NoDuplicates(g.tags)
           /\ Elems(g.tags) = {<<"index">>}
                \cup (IF parallels[g.blockId].parallelType = "collection" THEN itemTags ELSE {})

\* A loop of an explicit type other than forEach and a collection parallel, both
\* around the requesting block.
C8_Witness ==
  /\ HasGroup(tagData.loopBlockGroup)
  /\ loops[tagData.loopBlockGroup.blockId].loopType = "for"
  /\ HasGroup(tagData.parallelBlockGroup)
  /\ parallels[tagData.parallelBlockGroup.blockId].parallelType = "collection"

contextualTagNames ==
  {<<"index">>, <<"currentIteration">>, <<"currentItem">>, <<"items">>}

\* A group made of contextual tags only.
IsContextGroup(g) == Len(g.tags) > 0 /\ Elems(g.tags) \subseteq contextualTagNames

memberOfSomeContainer ==
  \/ \E l \in DOMAIN loops : blockId \in loops[l].nodes
  \/ \E q \in DOMAIN parallels : blockId \in parallels[q].nodes

isSomeContainer == blockId \in DOMAIN loops \/ blockId \in DOMAIN parallels

\* C9: a contextual group of container L is among the groups only if the
\* requesting block is a node of L or is L; a block that is neither a node of nor
\* the same as any container gets no contextual group and no contextual tag.
C9_ContextualVisibility ==
  /\ \A g \in Elems(tagData.blockTagGroups) :
       IsContextGroup(g) =>
         \/ g.blockId = blockId
         \/ g.blockType = "loop" /\ g.blockId \in DOMAIN loops
              /\ blockId \in loops[g.blockId].nodes
         \/ g.blockType = "parallel" /\ g.blockId \in DOMAIN parallels
              /\ blockId \in parallels[g.blockId].nodes
  /\ (~memberOfSomeContainer /\ ~isSomeContainer) =>
       /\ ~HasGroup(tagData.loopBlockGroup)
       /\ ~HasGroup(tagData.parallelBlockGroup)
       /\ \A g \in Elems(tagData.blockTagGroups) : ~IsContextGroup(g)
       /\ Elems(tagData.tags) \cap contextualTagNames = {}

\* The requesting block is a node of a loop other than itself and is offered
\* that loop's contextual group.
C9_Witness ==
  /\ HasGroup(tagData.loopBlockGroup)
  /\ tagData.loopBlockGroup.blockId # blockId
  /\ blockId \in loops[tagData.loopBlockGroup.blockId].nodes
  /\ tagData.loopBlockGroup \in Elems(tagData.blockTagGroups)

nestedInAnother ==
  \/ \E l \in (DOMAIN loops) \ {blockId} : blockId \in loops[l].nodes
  \/ \E q \in (DOMAIN parallels) \ {blockId} : blockId \in parallels[q].nodes

\* C10 (as claimed): a requesting loop or parallel that is nested in another
\* container gets its own contextual group, not the enclosing container's.
C10_OwnContainerPrecedence ==
  /\ (/\ blockId \in DOMAIN blocks
      /\ blocks[blockId].type = "loop"
      /\ blockId \in DOMAIN loops
      /\ nestedInAnother)
     => /\ HasGroup(tagData.loopBlockGroup)
        /\ tagData.loopBlockGroup.blockId = blockId
  /\ (/\ blockId \in DOMAIN blocks
      /\ blocks[blockId].type = "parallel"
      /\ blockId \in DOMAIN parallels
      /\ nestedInAnother)
     => /\ HasGroup(tagData.parallelBlockGroup)
        /\ tagData.parallelBlockGroup.blockId = blockId

(***************************************************************************)
(* Specification of the distance ordering: blocks 1 (a starter, an agent   *)
(* or absent), 2 (named "A" or "Variable") and 3 are accessible to block   *)
(* 4, there is one workflow variable "q", and the edge list is every list  *)
(* of up to MaxLen edges among blocks 1..3 (with self-loops, cycles and    *)
(* duplicates).                                                            *)
(***************************************************************************)
EdgeEnds == {1, 2, 3}

\* A connection is drawn between two blocks.
AddEdge(source, target) ==
  /\ Len(edges) < MaxLen
  /\ edges' = Append(edges, [source |-> source, target |-> target])
  /\ UNCHANGED <<blocks, loops, parallels, workflowVariables, workflowSubBlockValues,
                 scopeVars, textVars>>
  /\ last' = NoCall
  /\ Recompute
  /\ RenderEffects
  /\ UNCHANGED serviceVars

\* The most recent connection is deleted.
RemoveEdge ==
  /\ Len(edges) > 0
  /\ edges' = SubSeq(edges, 1, Len(edges) - 1)
  /\ UNCHANGED <<blocks, loops, parallels, workflowVariables, workflowSubBlockValues,
                 scopeVars, textVars>>
  /\ last' = NoCall
  /\ Recompute
  /\ RenderEffects
  /\ UNCHANGED serviceVars

InitOrder ==
  /\ blocks = (2 :> Block("agent", <<"A">>)) @@ (3 :> Block("agent", <<"B">>))
                @@ (4 :> Block("agent", <<"Q">>))
  /\ loops = <<>>
  /\ parallels = <<>>
  /\ edges = <<>>
  /\ workflowVariables = << [id |-> "v1", name |-> <<"q">>, type |-> "string"] >>
  /\ workflowSubBlockValues = <<>>
  /\ blockId = 4
  /\ accessible = <<1, 2, 3>>
  /\ activeSourceBlockId = 0
  /\ visible = TRUE
  /\ inputValue = <<"<">>
  /\ cursorPosition = 1
  /\ domFocused = FALSE
  /\ domValue = <<"<">>
  /\ domCursor = 1
  /\ domPending = FALSE
  /\ tagData = TagData(Snap)
  /\ last = NoCall
  /\ KeysIdle
  /\ ServicesIdle

OrderNames == {<<"A">>, <<"Variable">>}

NextOrder ==
  \/ \E source \in EdgeEnds : \E target \in EdgeEnds : AddEdge(source, target)
  \/ RemoveEdge
  \/ \E type \in {"starter", "agent"} : AddBlock(1, type, <<>>)
  \/ RemoveBlock(1)
  \/ \E name \in OrderNames : RenameBlock(2, name)

SpecOrder == InitOrder /\ [][NextOrder]_vars

(***************************************************************************)
(* Properties of the distances and of the flat order (SpecOrder).          *)
(***************************************************************************)
edgePairs == {<<edges[i].source, edges[i].target>> : i \in 1..Len(edges)}

\* The blocks reached from the root over at most k edges.
RECURSIVE ReachedWithin(_, _)
ReachedWithin(root, k) ==
  IF k = 0 THEN {root}
  ELSE LET before == ReachedWithin(root, k - 1)
       IN  before \cup {e[2] : e \in {x \in edgePairs : x[1] \in before}}

hopBound == Cardinality(EdgeEnds)

minHops(root, n) == MinOf({k \in 0..hopBound : n \in ReachedWithin(root, k)})

starterIds == {id \in DOMAIN blocks : blocks[id].type = "starter"}

\* C11: the distance search ends for every edge list and maps exactly the
\* blocks reachable from the starter, each to its least number of hops (the
\* starter to 0); without a starter the mapping is empty.
C11_Distances ==
  LET blockDistances == blockDistancesOf(Snap)
  IN  IF starterIds = {} THEN blockDistances = <<>>
      ELSE LET root == MinOf(starterIds)
           IN  /\ DOMAIN blockDistances = ReachedWithin(root, hopBound)
               /\ blockDistances[root] = 0
               /\ \A n \in DOMAIN blockDistances : blockDistances[n] = minHops(root, n)

\* Block 3 is two hops from the starter, on a cycle that leads back to it.
C11_Witness ==
  /\ starterIds = {1}
  /\ <<3, 1>> \in edgePairs
  /\ 3 \in DOMAIN blockDistancesOf(Snap)
  /\ blockDistancesOf(Snap)[3] = 2

\* The index in orderedTags before the first entry of the a-th nested group.
RECURSIVE groupStart(_)
groupStart(a) ==
  IF a = 1 THEN Len(variableTags)
  ELSE groupStart(a - 1) + Len(visualTagsOfGroup(nestedBlockTagGroups[a - 1]))

groupPositions(a) ==
  (groupStart(a) + 1)..(groupStart(a) + Len(visualTagsOfGroup(nestedBlockTagGroups[a])))

\* The tags derived from the workflow variables, and the tags of the block groups.
variableDerivedTags == Elems(variableTagsOf(workflowVariables))

blockDerivedTags == Elems(GroupTags(tagData.regularGroups))

hasDistance(id) == id \in DOMAIN blockDistancesOf(Snap)

\* In the flat order the groups of blocks with a distance come by ascending distance.
distanceOrdered ==
  \A a, b \in 1..Len(nestedBlockTagGroups) :
    LET U == nestedBlockTagGroups[a].group
        V == nestedBlockTagGroups[b].group
    IN  (/\ U \in Elems(tagData.regularGroups)
         /\ V \in Elems(tagData.regularGroups)
         /\ hasDistance(U.blockId)
         /\ hasDistance(V.blockId)
         /\ blockDistancesOf(Snap)[U.blockId] < blockDistancesOf(Snap)[V.blockId])
        => \A i \in groupPositions(a) : \A j \in groupPositions(b) : i < j

\* In the flat order no tag of a block stands before a tag of a variable.
variablesFirst ==
  LET ordered == orderedTags
      ofVariables == {j \in 1..Len(ordered) : ordered[j] \in variableDerivedTags}
      ofBlocks == {i \in 1..Len(ordered) : /\ ordered[i] \in blockDerivedTags
                                           /\ ordered[i] \notin variableDerivedTags}
  IN  \A j \in ofVariables : \A i \in ofBlocks : j < i

\* C12 (as claimed): in the flat navigable order all variable tags precede all
\* block tags, and the entries of a block at a smaller distance precede the
\* entries of a block at a greater distance.
C12_FlatOrdering == variablesFirst /\ distanceOrdered

\* C13 (as claimed): the group of an accessible block without a distance is
\* never placed ahead of the group of a block at a positive distance.
C13_UnreachableNotPrioritized ==
  \A a, b \in 1..Len(tagData.regularGroups) :
    (/\ a < b
     /\ ~hasDistance(tagData.regularGroups[a].blockId)
     /\ hasDistance(tagData.regularGroups[b].blockId))
    => blockDistancesOf(Snap)[tagData.regularGroups[b].blockId] = 0

(***************************************************************************)
(* Properties of the nested display (SpecInsert).                          *)
(***************************************************************************)
\* How often x occurs in a sequence.
Occurrences(seq, x) == Cardinality({i \in 1..Len(seq) : seq[i] = x})

\* The fullTags of the children and of the direct entries of a nested list.
entryFullTags(nestedTags) ==
  Flatten([k \in 1..Len(nestedTags) |->
             IF Len(nestedTags[k].children) > 0
             THEN [c \in 1..Len(nestedTags[k].children) |-> nestedTags[k].children[c].fullTag]
             ELSE IF nestedTags[k].hasFullTag THEN <<nestedTags[k].fullTag>> ELSE <<>>])

isParentEntry(e) == Len(e.children) > 0

isDirectEntry(e) == e.hasFullTag /\ Len(e.children) = 0

GroupingRuleOf(ng) ==
  LET tags == ng.group.tags
      entries == Elems(ng.nestedTags)
  IN  /\ \A tag \in Elems(tags) :
           LET tagParts == Split(tag)
           IN  /\ Len(tagParts) >= 3 =>
                    /\ \E e \in entries :
                         /\ isParentEntry(e)
                         /\ e.key = tagParts[2]
                         /\ \E c \in Elems(e.children) :
                              /\ c.fullTag = tag
                              /\ c.display = Join(SubSeq(tagParts, 3, Len(tagParts)))
                    /\ \A e \in entries : isDirectEntry(e) => e.fullTag # tag
               /\ Len(tagParts) = 2 =>
                    \E e \in entries : isDirectEntry(e) /\ e.fullTag = tag
               /\ (Len(tagParts) = 1 /\ ng.group.blockType \in {"loop", "parallel"}) =>
                    \E e \in entries :
                      isDirectEntry(e) /\ e.key = tag /\ e.display = tag /\ e.fullTag = tag
               /\ Occurrences(entryFullTags(ng.nestedTags), tag) = Occurrences(tags, tag)
      /\ Len(entryFullTags(ng.nestedTags)) = Len(tags)

derivationOrderOf(tags) ==
  LET kept == SelectSeq([i \in 1..Len(tags) |-> i],
                        LAMBDA i : \/ ~IsGroupedTag(tags[i])
                                   \/ \A j \in 1..(i - 1) :
                                        ~(IsGroupedTag(tags[j])
                                          /\ Split(tags[j])[2] = Split(tags[i])[2]))
  IN  [k \in 1..Len(kept) |-> tags[kept[k]]]

\* C15 (as claimed): within a group the flat navigable order is the derivation
\* order of the tags, whether an entry is grouped or direct.
C15_DerivationOrderKept ==
  \A i \in 1..Len(nestedBlockTagGroups) :
    visualTagsOfGroup(nestedBlockTagGroups[i])
      = derivationOrderOf(nestedBlockTagGroups[i].group.tags)

(***************************************************************************)
(* Connected blocks (useBlockConnections): the blocks that have an edge    *)
(* into the requesting block, each with the names of its output fields.    *)
(***************************************************************************)
\* getBlockOutputs: the outputs object of a block type, the selected trigger's
\* in trigger mode.
getBlockOutputs(type, merged, triggerMode) ==
  IF triggerMode /\ HasConfig(type) /\ BlockRegistry[type].triggersEnabled
     /\ type \in DOMAIN TriggerOutputs
  THEN TriggerOutputs[type]
  ELSE IF HasConfig(type) THEN BlockRegistry[type].outputs
  ELSE <<>>

\* The names of the output fields of a connected block.
outputFieldsOf(responseFormat, blockOutputs) ==
  IF responseFormat.k # "undefined"
  THEN extractFieldsFromSchema(responseFormat)
  ELSE [i \in 1..Len(blockOutputs) |-> blockOutputs[i][1]]

ConnectedBlock(s, sourceId) ==
  LET sourceBlock == s.blocks[sourceId]
      mergedSubBlocks == getMergedSubBlocks(s, sourceId)
      responseFormatValue == getSubBlockValue(s, sourceId, "responseFormat")
      responseFormat == parseResponseFormatSafely(responseFormatValue)
      blockOutputs == getBlockOutputs(sourceBlock.type, mergedSubBlocks, sourceBlock.triggerMode)
  IN  [id |-> sourceId,
       type |-> sourceBlock.type,
       outputType |-> outputFieldsOf(responseFormat, blockOutputs),
       name |-> sourceBlock.name,
       responseFormat |-> responseFormat]

directIncomingConnectionsOf(s) ==
  LET incoming == SelectSeq(s.edges, LAMBDA edge : edge.target = s.blockId
                                                   /\ edge.source \in DOMAIN s.blocks)
  IN  [i \in 1..Len(incoming) |-> ConnectedBlock(s, incoming[i].source)]

directIncomingConnections == directIncomingConnectionsOf(Snap)

(***************************************************************************)
(* Specification of tag derivation: block 1 is the source block (agent,    *)
(* mail, evaluator, variables, generic_webhook or starter) in every        *)
(* configuration of trigger mode, operation, metrics, assignments and      *)
(* response format; it is accessible to block 2 and may be the single      *)
(* source block.                                                           *)
(***************************************************************************)
\* The connection being dragged starts or stops naming a source block.
SetActiveSource(id) ==
  /\ activeSourceBlockId # id
  /\ activeSourceBlockId' = id
  /\ UNCHANGED <<storeVars, blockId, accessible, textVars>>
  /\ last' = NoCall
  /\ Recompute
  /\ RenderEffects
  /\ UNCHANGED serviceVars

assignmentValues ==
  { << [variableName |-> <<" ">>] >>,
    << [variableName |-> <<"x">>] >>,
    << [variableName |-> <<"result">>], [variableName |-> <<"result", ".", "a">>] >> }

metricValues == { << [name |-> "A"] >> }

responseFormatValues ==
  { RFObject(FALSE, <<>>, TRUE, <<"x">>), RFObject(FALSE, <<>>, FALSE, <<>>),
    RFString("reference", RFUndefined) }

InitDerive ==
  /\ EmptyWorkflow
  /\ blocks = (2 :> Block("agent", <<"B">>))
  /\ blockId = 2
  /\ accessible = <<1>>
  /\ tagData = TagData(Snap)

NextDerive ==
  \/ \E type \in {"agent", "mail", "evaluator", "variables", "generic_webhook", "starter"} :
       AddBlock(1, type, <<>>)
  \/ RemoveBlock(1)
  \/ ToggleTriggerMode(1)
  \/ SetLiveValue(1, "operation", "send")
  \/ \E value \in assignmentValues : SetLiveValue(1, "variables", value)
  \/ \E value \in metricValues : SetLiveValue(1, "metrics", value)
  \/ \E value \in responseFormatValues : SetLiveValue(1, "responseFormat", value)
  \/ \E id \in {0, 1} : SetActiveSource(id)
  \/ AddEdge(1, 2)
  \/ RemoveEdge

SpecDerive == InitDerive /\ [][NextDerive]_vars

(***************************************************************************)
(* Properties of tag derivation (SpecDerive).                              *)
(***************************************************************************)
\* C16 (as claimed): in no group is a key both the key of an entry with
\* children and the key of a direct entry.
C16_BranchLeafDisjoint ==
  \A i \in 1..Len(nestedBlockTagGroups) :
    \A e1, e2 \in Elems(nestedBlockTagGroups[i].nestedTags) :
      ~(isParentEntry(e1) /\ isDirectEntry(e2) /\ e1.key = e2.key)

\* C19 (as claimed): a generic_webhook group holds the bare normalized name
\* exactly once; the group of any other block that has no child tags holds the
\* bare normalized name as its single tag.
C19_RootTagPolicy ==
  \A g \in Elems(tagData.blockTagGroups) :
    LET name == normalizeBlockName(g.blockName)
    IN  IF g.blockType = "generic_webhook"
        THEN Occurrences(g.tags, name) = 1
        ELSE (\A tag \in Elems(g.tags) : tag = name) => g.tags = <<name>>

\* The tags the selected trigger's outputs give a block.
triggerDerivedTags(id) ==
  TagsOf(normalizeBlockName(DisplayName(blocks[id])),
         getBlockOutputPaths(blocks[id].type, getMergedSubBlocks(Snap, id), TRUE))

\* C20 (as claimed): the tags of a block that is in trigger mode and whose
\* configuration enables triggers are derived from the selected trigger's
\* outputs, whatever else is configured on the block.
C20_TriggerModeFirst ==
  \A g \in Elems(tagData.blockTagGroups) :
    (/\ g.blockId \in DOMAIN blocks
     /\ blocks[g.blockId].triggerMode
     /\ HasConfig(g.blockType)
     /\ BlockRegistry[g.blockType].triggersEnabled
     /\ Len(triggerDerivedTags(g.blockId)) > 0)
    => g.tags = RootTagPolicy(triggerDerivedTags(g.blockId),
                              normalizeBlockName(g.blockName), g.blockType)

(***************************************************************************)
(* Specification of the output flatteners: generateOutputPaths and         *)
(* generateOutputPathsWithTypes are called on declared outputs objects of  *)
(* every shape up to three levels deep.                                    *)
(***************************************************************************)
\* The objects with keys among `keys` (each at most once, in any order) and
\* values among `values`.
ObjectsOver(keys, values) ==
  UNION { { o \in [1..n -> keys \X values] :
              \A i, j \in 1..n : i # j => o[i][1] # o[j][1] } :
          n \in 0..Cardinality(keys) }

\* The values that hold the objects `objects`.
NestedValues(objects) ==
  {Obj(ps) : ps \in objects} \cup {Arr(ps) : ps \in objects}
    \cup {Legacy(ps) : ps \in objects}

InnermostValues == {Str("string"), Leaf("number")}

LeafValues == {Str("string"), Leaf("number"), Other}

PropertyValues == LeafValues \cup NestedValues(ObjectsOver({"c"}, InnermostValues))

OutputValues == LeafValues \cup NestedValues(ObjectsOver({"a", "b"}, PropertyValues))

DeclaredOutputs == ObjectsOver({"result"}, OutputValues)

GenerateOutputPaths(outputs) ==
  /\ last' = [op |-> "generateOutputPaths", outputs |-> outputs,
              result |-> generateOutputPaths(outputs, <<>>)]
  /\ UNCHANGED <<storeVars, scopeVars, textVars, tagData>>
  /\ RenderEffects
  /\ UNCHANGED serviceVars

GenerateOutputPathsWithTypes(outputs) ==
  /\ last' = [op |-> "generateOutputPathsWithTypes", outputs |-> outputs,
              result |-> generateOutputPathsWithTypes(outputs, <<>>)]
  /\ UNCHANGED <<storeVars, scopeVars, textVars, tagData>>
  /\ RenderEffects
  /\ UNCHANGED serviceVars

NextOutputs ==
  \/ \E outputs \in DeclaredOutputs : GenerateOutputPaths(outputs)
  \/ \E outputs \in DeclaredOutputs : GenerateOutputPathsWithTypes(outputs)

SpecOutputs == Init /\ [][NextOutputs]_vars

(***************************************************************************)
(* Properties of the output flatteners (SpecOutputs).                      *)
(***************************************************************************)
OutputKeys == {"result", "a", "b", "c"}

\* The key paths of up to three levels.
KeyPaths == UNION {[1..n -> OutputKeys] : n \in 1..3}

Missing == [k |-> "missing", type |-> "", where |-> "none", props |-> <<>>]

\* An object or array that declares the properties of what it holds, or a
\* nested object of the legacy format.
HoldsProperties(value) ==
  \/ value.k = "legacy"
  \/ value.k = "typed" /\ value.type = "object" /\ value.where = "properties"
  \/ value.k = "typed" /\ value.type = "array" /\ value.where = "items"

\* The declaration found by following the keys `keys` from `outputs`.
RECURSIVE DeclaredAt(_, _)
DeclaredAt(outputs, keys) ==
  LET found == SelectSeq(outputs, LAMBDA e : e[1] = Head(keys))
  IN  IF found = <<>> THEN Missing
      ELSE IF Len(keys) = 1 THEN found[1][2]
      ELSE IF HoldsProperties(found[1][2]) THEN DeclaredAt(found[1][2].props, Tail(keys))
      ELSE Missing

DeclaredType(value) == IF value.k \in {"str", "typed"} THEN value.type ELSE "any"

DottedPath(keys) == Join([i \in 1..Len(keys) |-> <<keys[i]>>])

\* One entry per declared value that is not a legacy nested object.
ExpectedEntries(outputs) ==
  { [path |-> DottedPath(keys), type |-> DeclaredType(DeclaredAt(outputs, keys))] :
      keys \in {ks \in KeyPaths : DeclaredAt(outputs, ks).k \notin {"missing", "legacy"}} }

IsUnder(path, container) ==
  /\ Len(path) > Len(container)
  /\ SubSeq(path, 1, Len(container) + 1) = container \o <<".">>

\* C17: generateOutputPathsWithTypes emits exactly one entry for each declared
\* value: a bare string and a {type} value without nested properties as a leaf
\* of that type, any other non-object value as 'any', and an object or array
\* with properties as an entry of type object or array that is followed by the
\* entries of all its descendants; no entry is emitted twice.
C17_TypedFlattening ==
  last.op = "generateOutputPathsWithTypes" =>
    /\ Elems(last.result) = ExpectedEntries(last.outputs)
    /\ NoDuplicates(last.result)
    /\ \A i, j \in 1..Len(last.result) :
         IsUnder(last.result[j].path, last.result[i].path) => i < j

\* { result: { type: 'object', properties: { a: 'string', b: { type: 'number' } } } }
C17_Witness ==
  /\ last.op = "generateOutputPathsWithTypes"
  /\ last.outputs = << <<"result", Obj(<< <<"a", Str("string")>>, <<"b", Leaf("number")>> >>)>> >>
  /\ last.result = << [path |-> <<"result">>, type |-> "object"],
                      [path |-> <<"result", ".", "a">>, type |-> "string"],
                      [path |-> <<"result", ".", "b">>, type |-> "number"] >>

\* C18 (as claimed): the paths generateOutputPaths returns for a declared
\* outputs object are the paths generateOutputPathsWithTypes returns for it.
C18_SamePathSet ==
  last.op = "generateOutputPaths" =>
    Elems(last.result)
      = {e.path : e \in Elems(generateOutputPathsWithTypes(last.outputs, <<>>))}

\* The static declared outputs of a block type.
staticOutputKeys(type) ==
  [i \in 1..Len(BlockRegistry[type].outputs) |-> BlockRegistry[type].outputs[i][1]]

\* A response format is configured from which no field can be extracted.
fieldlessResponseFormat(slot) ==
  /\ parseResponseFormatSafely(slot).k # "undefined"
  /\ extractFieldsFromSchema(parseResponseFormatSafely(slot)) = <<>>

\* The block types whose tags come from the response format when one is set.
responseFormatTypes == {"agent", "mail"}

dropdownFallsBack ==
  \A g \in Elems(tagData.blockTagGroups) :
    (/\ g.blockType \in responseFormatTypes
     /\ fieldlessResponseFormat(getMergedSubBlocks(Snap, g.blockId)["responseFormat"]))
    => g.tags = TagsOf(normalizeBlockName(g.blockName),
                       [i \in 1..Len(staticOutputKeys(g.blockType)) |->
                          <<staticOutputKeys(g.blockType)[i]>>])

connectionsFallBack ==
  \A c \in Elems(directIncomingConnections) :
    (/\ c.type \in responseFormatTypes
     /\ fieldlessResponseFormat(getSubBlockValue(Snap, c.id, "responseFormat")))
    => c.outputType = staticOutputKeys(c.type)

\* C21 (as claimed): a block whose configured response format yields no fields
\* has its static declared outputs as derived outputs, in the tag dropdown and
\* in the connected-blocks list.
C21_ResponseFormatFallback == dropdownFallsBack /\ connectionsFallBack

(***************************************************************************)
(* Specification of vanished blocks: block 1 (an agent, mail, starter or   *)
(* loop block, or a block of a type without registered configuration) is   *)
(* added and deleted while it stays in the accessible set of block 2 and   *)
(* may be the single source block; an entry of its group may be clicked    *)
(* after the deletion and before the dropdown is rendered again.           *)
(***************************************************************************)
\* Block `id` is deleted from the store and, before the dropdown renders
\* again, an entry of the group it still shows for that block is clicked:
\* handleTagSelect reads the store as it is now.
SelectVanishedBlockTag(id) ==
  /\ Rendered
  /\ id \in DOMAIN blocks
  /\ blocks' = Remove(blocks, id)
  /\ loops' = [l \in (DOMAIN loops) \ {id} |->
                 [loops[l] EXCEPT !.nodes = loops[l].nodes \ {id}]]
  /\ parallels' = [q \in (DOMAIN parallels) \ {id} |->
                     [parallels[q] EXCEPT !.nodes = parallels[q].nodes \ {id}]]
  /\ workflowSubBlockValues' = Remove(workflowSubBlockValues, id)
  /\ \E g \in 1..Len(tagData.blockTagGroups) :
       /\ tagData.blockTagGroups[g].blockId = id
       /\ \E i \in 1..Len(tagData.blockTagGroups[g].tags) :
            last' = handleTagSelect([Snap EXCEPT !.blocks = Remove(blocks, id),
                                                 !.live = Remove(workflowSubBlockValues, id)],
                                    liveValueOf, liveCursorOf,
                                    tagData.blockTagGroups[g].tags[i],
                                    tagData.blockTagGroups[g])
  /\ UNCHANGED <<edges, workflowVariables, scopeVars, textVars>>
  /\ Recompute
  /\ RenderEffects
  /\ UNCHANGED serviceVars

NextVanish ==
  \/ \E type \in {"agent", "mail", "starter", "loop", "retired"} : AddBlock(1, type, <<>>)
  \/ RemoveBlock(1)
  \/ ToggleTriggerMode(1)
  \/ SetLiveValue(1, "startWorkflow", "chat")
  \/ \E id \in {0, 1} : SetActiveSource(id)
  \/ HostSetVisible
  \/ SelectBlockTag
  \/ SelectVanishedBlockTag(1)

SpecVanish == InitDerive /\ [][NextVanish]_vars

(***************************************************************************)
(* Properties of vanished blocks (SpecVanish).                             *)
(***************************************************************************)
sourceVanished ==
  /\ activeSourceBlockId # 0
  /\ \/ activeSourceBlockId \notin DOMAIN blocks
     \/ /\ ~HasConfig(blocks[activeSourceBlockId].type)
        /\ blocks[activeSourceBlockId].type \notin {"loop", "parallel"}

selectedVanished == last.op = "select" /\ last.group.blockId \notin DOMAIN blocks

\* C22: tag computation and tag selection complete when a block has vanished or
\* has no registered configuration: a missing single-source block yields no
\* tags and no groups, a missing accessible block contributes no group, and a
\* selection from the group of a vanished block inserts the tag as it is.
C22_VanishedBlocks ==
  /\ sourceVanished => tagData.tags = <<>> /\ tagData.blockTagGroups = <<>>
  /\ activeSourceBlockId = 0 =>
       \A g \in Elems(tagData.blockTagGroups) :
         /\ g.blockId \in DOMAIN blocks
         /\ HasConfig(g.blockType) \/ g.blockType \in {"loop", "parallel"}
  /\ selectedVanished =>
       /\ last.onSelect
       /\ last.onClose
       /\ last.processedTag = last.tag
       /\ last.newValue = <<"<">> \o last.tag \o <<">">>

\* A file property of a vanished block is selected.
C22_Witness ==
  /\ selectedVanished
  /\ Len(Split(last.tag)) >= 2
  /\ Includes(fileProperties, Split(last.tag)[Len(Split(last.tag))])
  /\ last.onSelect
  /\ accessible = <<1>>
  /\ 1 \notin DOMAIN blocks

(***************************************************************************)
(* Properties of the Variables section (SpecOrder).                        *)
(***************************************************************************)
\* C23 (as claimed): the Variables section lists exactly the tags derived from
\* the workflow variables, and no tag is both in the Variables section and in
\* a block group.
C23_VariableNamespace ==
  /\ searchTerm = <<>> => Elems(variableTags) = variableDerivedTags
  /\ \A g \in Elems(filteredBlockTagGroups) : Elems(g.tags) \cap Elems(variableTags) = {}

(***************************************************************************)
(* Properties of the single-source mode (Spec, SpecDerive).                *)
(***************************************************************************)
\* The tags of block id's group in normal mode, <<>> if it has no group.
normalModeTags(id) ==
  LET groups == NormalTagData([Snap EXCEPT !.activeSourceBlockId = 0]).regularGroups
      own == SelectSeq(groups, LAMBDA g : g.blockId = id)
  IN  IF own = <<>> THEN <<>> ELSE own[1].tags

singleSourceTags(id) == SingleSourceTagData([Snap EXCEPT !.activeSourceBlockId = id]).tags

\* C26 (as claimed): the tags computed for an accessible block in single-source
\* mode are the tags of its group in normal mode, from the same snapshot.
C26_SingleSourceConsistency ==
  \A id \in Elems(accessible) :
    (id \in DOMAIN blocks /\ id # blockId) => singleSourceTags(id) = normalModeTags(id)

(***************************************************************************)
(* Keyboard and mouse navigation (handleKeyboardEvent, the entries' mouse  *)
(* handlers).  Indexes are counted from 0 as in the source; the operators  *)
(* take the nested groups and the ordered tags of the current render.      *)
(***************************************************************************)
\* tagIndexMap.get(tag) ?? -1: the last position of tag in orderedTags.
tagIndexOf(ordered, tag) ==
  LET at == {i \in 1..Len(ordered) : ordered[i] = tag}
  IN  IF at = {} THEN -1 ELSE (CHOOSE i \in at : \A j \in at : j <= i) - 1

\* The positions <<group, entry>> of the entries of the nested groups.
nestedLocationsOf(nested) ==
  UNION {{<<gi, ni>> : ni \in 1..Len(nested[gi].nestedTags)} : gi \in 1..Len(nested)}

nestedTagAt(nested, loc) == nested[loc[1]].nestedTags[loc[2]]

\* The first position of a set of positions, in the order of the two loops.
firstLocation(locs) ==
  CHOOSE loc \in locs :
    \A other \in locs : loc[1] < other[1] \/ (loc[1] = other[1] /\ loc[2] <= other[2])

\* The grouped parents whose first child is `tag`.
parentLocationsOf(nested, tag) ==
  {loc \in nestedLocationsOf(nested) :
     /\ Len(nestedTagAt(nested, loc).children) > 0
     /\ nestedTagAt(nested, loc).children[1].fullTag = tag}

\* { tag: `${group.blockId}-${nestedTag.key}`, index }
hoverOfLocation(nested, loc) ==
  Hover(nested[loc[1]].group.blockId, nestedTagAt(nested, loc).key, loc[2] - 1)

\* const parentKey = `${group.blockId}-${nestedTag.key}`
parentKeyOf(nested, loc) ==
  [blockId |-> nested[loc[1]].group.blockId, key |-> nestedTagAt(nested, loc).key]

\* canEnterSubmenuForSelected: the set is empty when it returns null.
canEnterSubmenuOf(nested, ordered, index) ==
  IF index < 0 \/ index >= Len(ordered) THEN {}
  ELSE parentLocationsOf(nested, ordered[index + 1])

canEnterSubmenuForSelected ==
  canEnterSubmenuOf(nestedBlockTagGroups, orderedTags, selectedIndex)

\* The entries that the hover names.
hoveredLocationsOf(nested, hover) ==
  {loc \in nestedLocationsOf(nested) : hoverOfLocation(nested, loc) = hover}

hoveredLocations == hoveredLocationsOf(nestedBlockTagGroups, hoveredNested)

\* currentNestedTag?.children || []
hoveredChildrenOf(nested, hover) ==
  LET locs == hoveredLocationsOf(nested, hover)
  IN  IF locs = {} THEN <<>> ELSE nestedTagAt(nested, firstLocation(locs)).children

hoveredChildren == hoveredChildrenOf(nestedBlockTagGroups, hoveredNested)

\* The handler called nothing but the state setters, or onClose.
KeyCall(key, closes) == [NoCall EXCEPT !.op = key, !.onClose = closes]

\* The selectedIndex effects after the render that a handler causes: the
\* handlers leave the search term and the list alone, so only the second
\* effect can apply.
AfterHandler(index, ordered) ==
  IF index >= Len(ordered) THEN Max(0, Len(ordered) - 1) ELSE index

\* The keys and the pointer leave the props and the stores alone.
HandlerStep ==
  /\ UNCHANGED <<storeVars, scopeVars, textVars, tagData>>
  /\ UNCHANGED serviceVars

\* if (!currentHovered) { setInSubmenu(false); return }
SubmenuWithoutHover(key, ordered) ==
  /\ inSubmenu' = FALSE
  /\ last' = KeyCall(key, FALSE)
  /\ selectedIndex' = AfterHandler(selectedIndex, ordered)
  /\ UNCHANGED <<hoveredNested, submenuIndex, parentHovered, submenuHovered>>

\* ArrowUp and ArrowDown outside the submenu move the selection to newIndex.
MoveSelection(key, nested, ordered, newIndex) ==
  LET parents == parentLocationsOf(nested, ordered[newIndex + 1])
  IN  /\ selectedIndex' = AfterHandler(newIndex, ordered)
      /\ hoveredNested' = IF parents # {} THEN hoverOfLocation(nested, firstLocation(parents))
                          ELSE NoHover
      /\ last' = KeyCall(key, FALSE)
      /\ UNCHANGED <<inSubmenu, submenuIndex, parentHovered, submenuHovered>>

MoveInSubmenu(key, ordered, newIndex) ==
  /\ submenuIndex' = newIndex
  /\ last' = KeyCall(key, FALSE)
  /\ selectedIndex' = AfterHandler(selectedIndex, ordered)
  /\ UNCHANGED <<hoveredNested, inSubmenu, parentHovered, submenuHovered>>

\* ArrowLeft and Escape inside the submenu.
LeaveSubmenu(key, ordered) ==
  /\ inSubmenu' = FALSE
  /\ hoveredNested' = NoHover
  /\ submenuIndex' = 0
  /\ last' = KeyCall(key, FALSE)
  /\ selectedIndex' = AfterHandler(selectedIndex, ordered)
  /\ UNCHANGED <<parentHovered, submenuHovered>>

\* A key that sets no state; call is what the handler called.
NoStateSet(call, ordered) ==
  /\ last' = call
  /\ selectedIndex' = AfterHandler(selectedIndex, ordered)
  /\ UNCHANGED <<hoveredNested, inSubmenu, submenuIndex, parentHovered, submenuHovered>>

ArrowDown ==
  LET nested == nestedBlockTagGroups
      ordered == orderedTagsOf(variableTags, nested)
  IN  /\ visible
      /\ Len(ordered) > 0
      /\ HandlerStep
      /\ IF inSubmenu
         THEN IF hoveredNested = NoHover THEN SubmenuWithoutHover("ArrowDown", ordered)
              ELSE MoveInSubmenu("ArrowDown", ordered,
                                 Min(submenuIndex + 1,
                                     Len(hoveredChildrenOf(nested, hoveredNested)) - 1))
         ELSE MoveSelection("ArrowDown", nested, ordered,
                            Min(selectedIndex + 1, Len(ordered) - 1))

ArrowUp ==
  LET nested == nestedBlockTagGroups
      ordered == orderedTagsOf(variableTags, nested)
  IN  /\ visible
      /\ Len(ordered) > 0
      /\ HandlerStep
      /\ IF inSubmenu
         THEN IF hoveredNested = NoHover THEN SubmenuWithoutHover("ArrowUp", ordered)
              ELSE MoveInSubmenu("ArrowUp", ordered, Max(submenuIndex - 1, 0))
         ELSE MoveSelection("ArrowUp", nested, ordered, Max(selectedIndex - 1, 0))

ArrowLeft ==
  LET ordered == orderedTags
  IN  /\ visible
      /\ Len(ordered) > 0
      /\ HandlerStep
      /\ IF inSubmenu
         THEN IF hoveredNested = NoHover THEN SubmenuWithoutHover("ArrowLeft", ordered)
              ELSE LeaveSubmenu("ArrowLeft", ordered)
         ELSE NoStateSet(KeyCall("ArrowLeft", FALSE), ordered)

ArrowRight ==
  LET nested == nestedBlockTagGroups
      ordered == orderedTagsOf(variableTags, nested)
      targetLocation == canEnterSubmenuOf(nested, ordered, selectedIndex)
  IN  /\ visible
      /\ Len(ordered) > 0
      /\ HandlerStep
      /\ IF inSubmenu
         THEN IF hoveredNested = NoHover THEN SubmenuWithoutHover("ArrowRight", ordered)
              ELSE NoStateSet(KeyCall("ArrowRight", FALSE), ordered)
         ELSE IF targetLocation = {} THEN NoStateSet(KeyCall("ArrowRight", FALSE), ordered)
         ELSE /\ inSubmenu' = TRUE
              /\ submenuIndex' = 0
              /\ hoveredNested' = hoverOfLocation(nested, firstLocation(targetLocation))
              /\ last' = KeyCall("ArrowRight", FALSE)
              /\ selectedIndex' = AfterHandler(selectedIndex, ordered)
              /\ UNCHANGED <<parentHovered, submenuHovered>>

\* The tag and the group that Enter outside the submenu hands to handleTagSelect.
enterSelectionOf(nested, filtered, selectedTag) ==
  LET parents == parentLocationsOf(nested, selectedTag)
      belongsTo == SelectSeq(filtered,
                             LAMBDA group : \E i \in 1..Len(group.tags) : group.tags[i] = selectedTag)
  IN  IF parents # {}
      THEN LET loc == firstLocation(parents)
               group == nested[loc[1]].group
           IN  [tag |-> normalizeBlockName(group.blockName) \o <<".">>
                          \o nestedTagAt(nested, loc).key,
                group |-> group]
      ELSE [tag |-> selectedTag,
            group |-> IF belongsTo = <<>> THEN NoGroup ELSE belongsTo[1]]

Enter ==
  LET filtered == filteredBlockTagGroups
      nested == nestedBlockTagGroupsOf(filtered)
      ordered == orderedTagsOf(variableTags, nested)
      children == hoveredChildrenOf(nested, hoveredNested)
      selection == enterSelectionOf(nested, filtered, ordered[selectedIndex + 1])
  IN  /\ visible
      /\ Len(ordered) > 0
      /\ HandlerStep
      /\ IF inSubmenu
         THEN IF hoveredNested = NoHover THEN SubmenuWithoutHover("Enter", ordered)
              ELSE NoStateSet(
                     IF submenuIndex >= 0 /\ submenuIndex < Len(children)
                     THEN handleTagSelect(
                            Snap, liveValueOf, liveCursorOf, children[submenuIndex + 1].fullTag,
                            nested[firstLocation(hoveredLocationsOf(nested, hoveredNested))[1]].group)
                     ELSE KeyCall("Enter", FALSE),
                     ordered)
         ELSE NoStateSet(
                IF selectedIndex >= 0 /\ selectedIndex < Len(ordered)
                THEN handleTagSelect(Snap, liveValueOf, liveCursorOf,
                                     selection.tag, selection.group)
                ELSE KeyCall("Enter", FALSE),
                ordered)

Escape ==
  LET ordered == orderedTags
  IN  /\ visible
      /\ Len(ordered) > 0
      /\ HandlerStep
      /\ IF inSubmenu
         THEN IF hoveredNested = NoHover THEN SubmenuWithoutHover("Escape", ordered)
              ELSE LeaveSubmenu("Escape", ordered)
         ELSE NoStateSet(KeyCall("Escape", TRUE), ordered)

\* onMouseEnter of a variable entry (createTagEventHandlers).
MouseEnterVariable ==
  LET ordered == orderedTags
  IN  /\ Rendered
      /\ HandlerStep
      /\ \E i \in 1..Len(variableTags) :
           LET tagIndex == tagIndexOf(ordered, variableTags[i])
           IN  selectedIndex' = AfterHandler(IF tagIndex >= 0 THEN tagIndex ELSE 0, ordered)
      /\ hoveredNested' = NoHover
      /\ last' = NoCall
      /\ UNCHANGED <<inSubmenu, submenuIndex, parentHovered, submenuHovered>>

\* onMouseEnter of an entry of a block group.
MouseEnterEntry ==
  LET nested == nestedBlockTagGroups
      ordered == orderedTagsOf(variableTags, nested)
  IN  /\ Rendered
      /\ HandlerStep
      /\ \E loc \in nestedLocationsOf(nested) :
           LET nestedTag == nestedTagAt(nested, loc)
               tagIndex == IF nestedTag.hasFullTag THEN tagIndexOf(ordered, nestedTag.fullTag)
                           ELSE -1
               hasChildren == Len(nestedTag.children) > 0
           IN  /\ selectedIndex' =
                    AfterHandler(IF tagIndex >= 0 THEN tagIndex ELSE selectedIndex, ordered)
               /\ parentHovered' = IF hasChildren THEN parentKeyOf(nested, loc)
                                   ELSE parentHovered
               /\ hoveredNested' = IF hasChildren THEN hoverOfLocation(nested, loc)
                                   ELSE hoveredNested
      /\ last' = NoCall
      /\ UNCHANGED <<inSubmenu, submenuIndex, submenuHovered>>

\* onMouseLeave of the grouped parent the pointer was over.
MouseLeaveEntry ==
  LET nested == nestedBlockTagGroups
  IN  /\ parentHovered # NoParent
      /\ Rendered
      /\ HandlerStep
      /\ \E loc \in nestedLocationsOf(nested) :
           /\ Len(nestedTagAt(nested, loc).children) > 0
           /\ parentHovered = parentKeyOf(nested, loc)
      /\ parentHovered' = NoParent
      /\ hoveredNested' = IF ~submenuHovered THEN NoHover ELSE hoveredNested
      /\ last' = NoCall
      /\ selectedIndex' = AfterHandler(selectedIndex, orderedTagsOf(variableTags, nested))
      /\ UNCHANGED <<inSubmenu, submenuIndex, submenuHovered>>

\* The submenu of an entry is shown: hasChildren && isHovered.
SubmenuShown(nested, loc) ==
  /\ Len(nestedTagAt(nested, loc).children) > 0
  /\ hoveredNested = hoverOfLocation(nested, loc)

\* onMouseEnter of the submenu.
MouseEnterSubmenu ==
  LET nested == nestedBlockTagGroups
  IN  /\ hoveredNested # NoHover
      /\ Rendered
      /\ HandlerStep
      /\ \E loc \in nestedLocationsOf(nested) :
           /\ SubmenuShown(nested, loc)
           /\ hoveredNested' = hoverOfLocation(nested, loc)
      /\ submenuHovered' = TRUE
      /\ submenuIndex' = -1
      /\ last' = NoCall
      /\ selectedIndex' = AfterHandler(selectedIndex, orderedTagsOf(variableTags, nested))
      /\ UNCHANGED <<inSubmenu, parentHovered>>

\* onMouseLeave of the submenu the pointer was over.
MouseLeaveSubmenu ==
  LET nested == nestedBlockTagGroups
  IN  /\ submenuHovered
      /\ hoveredNested # NoHover
      /\ Rendered
      /\ HandlerStep
      /\ \E loc \in nestedLocationsOf(nested) :
           /\ SubmenuShown(nested, loc)
           /\ hoveredNested' = IF parentHovered # parentKeyOf(nested, loc) THEN NoHover
                               ELSE hoveredNested
      /\ submenuHovered' = FALSE
      /\ last' = NoCall
      /\ selectedIndex' = AfterHandler(selectedIndex, orderedTagsOf(variableTags, nested))
      /\ UNCHANGED <<inSubmenu, submenuIndex, parentHovered>>

\* onMouseEnter of a child in the submenu.
MouseEnterChild ==
  LET nested == nestedBlockTagGroups
  IN  /\ hoveredNested # NoHover
      /\ Rendered
      /\ HandlerStep
      /\ \E loc \in nestedLocationsOf(nested) :
           /\ SubmenuShown(nested, loc)
           /\ \E childIndex \in 0..(Len(nestedTagAt(nested, loc).children) - 1) :
                submenuIndex' = childIndex
      /\ inSubmenu' = TRUE
      /\ last' = NoCall
      /\ selectedIndex' = AfterHandler(selectedIndex, orderedTagsOf(variableTags, nested))
      /\ UNCHANGED <<hoveredNested, parentHovered, submenuHovered>>

\* onClick of a child in the submenu.
ClickChild ==
  LET nested == nestedBlockTagGroups
  IN  /\ hoveredNested # NoHover
      /\ Rendered
      /\ HandlerStep
      /\ \E loc \in nestedLocationsOf(nested) :
           /\ SubmenuShown(nested, loc)
           /\ \E childIndex \in 0..(Len(nestedTagAt(nested, loc).children) - 1) :
                last' = handleTagSelect(Snap, liveValueOf, liveCursorOf,
                                        nestedTagAt(nested, loc).children[childIndex + 1].fullTag,
                                        nested[loc[1]].group)
      /\ hoveredNested' = NoHover
      /\ selectedIndex' = AfterHandler(selectedIndex, orderedTagsOf(variableTags, nested))
      /\ UNCHANGED <<inSubmenu, submenuIndex, parentHovered, submenuHovered>>

(***************************************************************************)
(* Specification of the navigation: a mail block "Q" that reads mail and   *)
(* is accessible or not, one variable "x", the text "a<" followed by up to *)
(* MaxLen - 2 letters, every key and every pointer move.                   *)
(***************************************************************************)
InitKeys ==
  /\ blocks = (1 :> Block("mail", <<"Q">>)) @@ (3 :> Block("agent", <<"B">>))
  /\ loops = <<>>
  /\ parallels = <<>>
  /\ edges = << [source |-> 1, target |-> 3] >>
  /\ workflowVariables = << [id |-> "v1", name |-> <<"x">>, type |-> "string"] >>
  /\ workflowSubBlockValues = (1 :> [EmptySub EXCEPT !.operation = Val("read")])
  /\ blockId = 3
  /\ accessible = <<1>>
  /\ activeSourceBlockId = 0
  /\ visible = TRUE
  /\ inputValue = <<"a", "<">>
  /\ cursorPosition = 2
  /\ domFocused = FALSE
  /\ domValue = <<"a", "<">>
  /\ domCursor = 2
  /\ domPending = FALSE
  /\ tagData = TagData(Snap)
  /\ last = NoCall
  /\ KeysIdle
  /\ ServicesIdle

NextKeys ==
  \/ ArrowDown
  \/ ArrowUp
  \/ ArrowLeft
  \/ ArrowRight
  \/ Enter
  \/ Escape
  \/ MouseEnterVariable
  \/ MouseEnterEntry
  \/ MouseLeaveEntry
  \/ MouseEnterSubmenu
  \/ MouseLeaveSubmenu
  \/ MouseEnterChild
  \/ ClickChild
  \/ DomType("q")
  \/ HostSync
  \/ \E ids \in {{}, {1}} : SetAccessible(ids)

SpecKeys == InitKeys /\ [][NextKeys]_vars

(***************************************************************************)
(* Properties of the navigation (SpecKeys).                                *)
(***************************************************************************)
selectionInBounds ==
  (visible /\ Len(orderedTags) > 0)
    => (0 <= selectedIndex /\ selectedIndex <= Len(orderedTags) - 1)

\* ArrowDown at the last entry and ArrowUp at the first leave selectedIndex alone.
arrowsStopAtEnds ==
  /\ (last'.op = "ArrowDown" /\ ~inSubmenu /\ selectedIndex = Len(orderedTags) - 1)
       => selectedIndex' = selectedIndex
  /\ (last'.op = "ArrowUp" /\ ~inSubmenu /\ selectedIndex = 0)
       => selectedIndex' = selectedIndex

searchTermResets ==
  searchTermOf(inputValue', cursorPosition') # searchTerm => selectedIndex' = 0

\* C27 (as claimed): while the dropdown is visible with a non-empty ordered
\* list, selectedIndex is a position of the list; ArrowDown at the last entry
\* and ArrowUp at the first leave it unchanged; a change of the search term
\* resets it to 0.
C27_SelectionBounds ==
  /\ []selectionInBounds
  /\ [][arrowsStopAtEnds]_vars
  /\ [][searchTermResets]_vars

\* The bounds and the two ends without the reset of the search term.
C27_BoundsOnly == []selectionInBounds /\ [][arrowsStopAtEnds]_vars

submenuStateValid ==
  inSubmenu => /\ hoveredLocations # {}
               /\ Len(hoveredChildren) > 0
               /\ 0 <= submenuIndex
               /\ submenuIndex < Len(hoveredChildren)

arrowRightEntersAtParent ==
  (last'.op = "ArrowRight" /\ ~inSubmenu /\ inSubmenu') => canEnterSubmenuForSelected # {}

leftAndEscapeLeave ==
  (last'.op \in {"ArrowLeft", "Escape"} /\ inSubmenu /\ hoveredNested # NoHover)
    => /\ ~inSubmenu'
       /\ hoveredNested' = NoHover
       /\ submenuIndex' = 0
       /\ ~last'.onClose
       /\ visible'

\* C28 (as claimed): whenever inSubmenu is true, hoveredNested names a grouped
\* entry with children and submenuIndex is a position of its children;
\* ArrowRight enters the submenu only from the first child of a grouped parent;
\* ArrowLeft and Escape inside the submenu leave it and do not close the
\* dropdown.
C28_SubmenuState ==
  /\ []submenuStateValid
  /\ [][arrowRightEntersAtParent]_vars
  /\ [][leftAndEscapeLeave]_vars

\* The two clauses about keys without the state invariant.
C28_KeysOnly == [][arrowRightEntersAtParent]_vars /\ [][leftAndEscapeLeave]_vars

(***************************************************************************)
(* Permission lookup with the Redis cache (getUserEntityPermissions), for  *)
(* one user and one entity.  permissionRows holds the permission types of  *)
(* the user's rows; redisCache is the value under the cache key, "absent"  *)
(* when the key is not set; a cached or returned null is "null".           *)
(***************************************************************************)
PermissionTypes == {"admin", "write", "read"}

\* const permissionOrder = { admin: 3, write: 2, read: 1 }
permissionOrder(type) == CASE type = "admin" -> 3 [] type = "write" -> 2 [] type = "read" -> 1

\* result.reduce(...) over the rows, null for no rows.
highestPermission(rows) ==
  IF rows = {} THEN "null"
  ELSE CHOOSE type \in rows : \A other \in rows : permissionOrder(other) <= permissionOrder(type)

\* A call that has not read the cache yet.  `during` collects what the
\* database held at some moment since the call started.
NewCall == [pc |-> "cache", permission |-> "null", during |-> {highestPermission(permissionRows)}]

\* The calls in progress observe a change of the rows.
Observe(calls, rows) ==
  [i \in 1..Len(calls) |->
     IF calls[i].pc = "done" THEN calls[i]
     ELSE [calls[i] EXCEPT !.during = @ \cup {highestPermission(rows)}]]

PermissionStep ==
  /\ UNCHANGED dropdownVars
  /\ UNCHANGED <<providerVars, serve, childVars>>

\* A row of the user is inserted.
Grant(type) ==
  /\ type \notin permissionRows
  /\ permissionRows' = permissionRows \cup {type}
  /\ permissionCalls' = Observe(permissionCalls, permissionRows')
  /\ UNCHANGED redisCache
  /\ PermissionStep

\* A row of the user is deleted.
Revoke(type) ==
  /\ type \in permissionRows
  /\ permissionRows' = permissionRows \ {type}
  /\ permissionCalls' = Observe(permissionCalls, permissionRows')
  /\ UNCHANGED redisCache
  /\ PermissionStep

\* The 60 seconds of setex have passed.
CacheExpire ==
  /\ redisCache # "absent"
  /\ redisCache' = "absent"
  /\ UNCHANGED <<permissionRows, permissionCalls>>
  /\ PermissionStep

\* getUserEntityPermissions is called; the oldest finished call is forgotten.
StartCall ==
  /\ IF Len(permissionCalls) < MaxCalls THEN TRUE ELSE permissionCalls[1].pc = "done"
  /\ permissionCalls' =
       Append(IF Len(permissionCalls) < MaxCalls THEN permissionCalls ELSE Tail(permissionCalls),
              NewCall)
  /\ UNCHANGED <<permissionRows, redisCache>>
  /\ PermissionStep

\* await redis.get(cacheKey): a hit returns the cached value; a miss, a missing
\* client or a failure goes on to the database.
CacheRead(i, redisWorks) ==
  /\ i \in 1..Len(permissionCalls)
  /\ permissionCalls[i].pc = "cache"
  /\ permissionCalls' =
       [permissionCalls EXCEPT ![i] =
          IF redisWorks /\ redisCache # "absent"
          THEN [@ EXCEPT !.pc = "done", !.permission = redisCache]
          ELSE [@ EXCEPT !.pc = "query"]]
  /\ UNCHANGED <<permissionRows, redisCache>>
  /\ PermissionStep

\* await db.select(...): the highest permission of the rows.
QueryDatabase(i) ==
  /\ i \in 1..Len(permissionCalls)
  /\ permissionCalls[i].pc = "query"
  /\ permissionCalls' =
       [permissionCalls EXCEPT ![i] =
          [@ EXCEPT !.pc = "write", !.permission = highestPermission(permissionRows)]]
  /\ UNCHANGED <<permissionRows, redisCache>>
  /\ PermissionStep

\* await redis.setex(cacheKey, 60, cacheValue), then return permission; a
\* missing client or a failure leaves the cache alone.
CacheWrite(i, redisWorks) ==
  /\ i \in 1..Len(permissionCalls)
  /\ permissionCalls[i].pc = "write"
  /\ redisCache' = IF redisWorks THEN permissionCalls[i].permission ELSE redisCache
  /\ permissionCalls' = [permissionCalls EXCEPT ![i] = [@ EXCEPT !.pc = "done"]]
  /\ UNCHANGED permissionRows
  /\ PermissionStep

(***************************************************************************)
(* Specification of the permission lookup: up to MaxCalls calls at a time, *)
(* grants and revocations of read and admin rows, a Redis that works or    *)
(* not at each access.                                                     *)
(***************************************************************************)
NextPermissions ==
  \/ \E type \in {"admin", "read"} : Grant(type)
  \/ \E type \in {"admin", "read"} : Revoke(type)
  \/ CacheExpire
  \/ StartCall
  \/ \E i \in 1..MaxCalls : \E redisWorks \in BOOLEAN : CacheRead(i, redisWorks)
  \/ \E i \in 1..MaxCalls : QueryDatabase(i)
  \/ \E i \in 1..MaxCalls : \E redisWorks \in BOOLEAN : CacheWrite(i, redisWorks)

SpecPermissions == Init /\ [][NextPermissions]_vars

(***************************************************************************)
(* Properties of the permission lookup (SpecPermissions).                  *)
(***************************************************************************)
\* C24 (as claimed): every finished call returned the highest permission that
\* the user had for the entity at some moment of the call, null for none.
C24_CurrentPermission ==
  \A i \in 1..Len(permissionCalls) :
    permissionCalls[i].pc = "done" => permissionCalls[i].permission \in permissionCalls[i].during

\* A call that went to the database returned what the rows held.
C24_DatabasePath ==
  [][\A i \in 1..Len(permissionCalls) :
       (permissionCalls[i].pc = "query" /\ Len(permissionCalls') = Len(permissionCalls)
          /\ permissionCalls' = [permissionCalls EXCEPT ![i] = permissionCalls'[i]]
          /\ permissionCalls'[i].pc = "write")
         => permissionCalls'[i].permission = highestPermission(permissionRows)]_vars

(***************************************************************************)
(* Provider models (useProvidersStore).  modelFetches holds, per provider, *)
(* the latest fetchModels call that got past the isLoading check: waiting  *)
(* for the response, responded (fetchProviderModels has resolved, with []  *)
(* after a failure), or settled (the finally block has run).               *)
(***************************************************************************)
\* PROVIDER_CONFIGS[provider].dedupeModels
dedupeModels == [p \in ProviderNames |-> p \in {"base", "openrouter"}]

\* Array.from(new Set(models))
Dedupe(models) ==
  LET first == SelectSeq([i \in 1..Len(models) |-> i],
                         LAMBDA i : \A j \in 1..(i - 1) : models[j] # models[i])
  IN  [k \in 1..Len(first) |-> models[first[k]]]

\* The update drops the other providers instead of spreading state.providers.
setModels_Replace(state, provider, models) ==
  [p \in ProviderNames |->
     IF p = provider
     THEN [state[p] EXCEPT !.models = IF dedupeModels[provider] THEN Dedupe(models) ELSE models]
     ELSE [models |-> <<>>, isLoading |-> FALSE]]

\* set((state) => ({ providers: { ...state.providers, [provider]: { ..., models } } }))
setModels(state, provider, models) ==
  [state EXCEPT ![provider].models = IF dedupeModels[provider] THEN Dedupe(models) ELSE models]

\* set((state) => ({ providers: { ...state.providers, [provider]: { ..., isLoading } } }))
setIsLoading(state, provider, isLoading) == [state EXCEPT ![provider].isLoading = isLoading]

Waiting == [pc |-> "waiting", ok |-> FALSE, models |-> <<>>]

ProviderStep ==
  /\ UNCHANGED dropdownVars
  /\ UNCHANGED <<permissionVars, serve, childVars>>

\* fetchModels(provider) up to its await; a call while isLoading returns at once.
FetchModels(provider) ==
  /\ ~providers[provider].isLoading
  /\ providers' = setIsLoading(providers, provider, TRUE)
  /\ modelFetches' = [modelFetches EXCEPT ![provider] = Waiting]
  /\ ProviderStep

\* The initialization timer: the three fetchModels calls of Promise.allSettled,
\* each up to its await.
FetchAll ==
  /\ \E p \in ProviderNames : ~providers[p].isLoading
  /\ providers' = [p \in ProviderNames |-> [providers[p] EXCEPT !.isLoading = TRUE]]
  /\ modelFetches' = [p \in ProviderNames |->
                        IF providers[p].isLoading THEN modelFetches[p] ELSE Waiting]
  /\ ProviderStep

\* fetchProviderModels resolves: the models of the response, [] when the
\* request failed or the response was not ok.
Respond(provider, ok, models) ==
  /\ modelFetches[provider].pc = "waiting"
  /\ modelFetches' = [modelFetches EXCEPT ![provider] =
                        [pc |-> "responded", ok |-> ok,
                         models |-> IF ok THEN models ELSE <<>>]]
  /\ UNCHANGED providers
  /\ ProviderStep

\* fetchModels after its await: setModels, then the finally block.  An
\* exception of config.updateFunction is caught and changes nothing here.
Settle(provider) ==
  /\ modelFetches[provider].pc = "responded"
  /\ providers' = setIsLoading(setModels(providers, provider, modelFetches[provider].models),
                               provider, FALSE)
  /\ modelFetches' = [modelFetches EXCEPT ![provider].pc = "settled"]
  /\ ProviderStep

\* setModels called from outside fetchModels.
SetModels(provider, models) ==
  /\ providers' = setModels(providers, provider, models)
  /\ UNCHANGED modelFetches
  /\ ProviderStep

(***************************************************************************)
(* Specification of the provider models: every order of the fetches'       *)
(* starts, responses and continuations, responses that fail or hold one of *)
(* ModelLists.                                                             *)
(***************************************************************************)
ModelLists == {<<>>, <<"m">>, <<"m", "m">>}

NextProviders ==
  \/ FetchAll
  \/ \E provider \in ProviderNames : FetchModels(provider)
  \/ \E provider \in ProviderNames : \E ok \in BOOLEAN : \E models \in ModelLists :
       Respond(provider, ok, models)
  \/ \E provider \in ProviderNames : Settle(provider)
  \/ \E models \in ModelLists : SetModels("ollama", models)

SpecProviders == Init /\ [][NextProviders]_vars

(***************************************************************************)
(* Properties of the provider models (SpecProviders).                      *)
(***************************************************************************)
\* A fetch whose response has arrived can go on, whatever the others do.
neverBlocked ==
  \A p \in ProviderNames : modelFetches[p].pc = "responded" => ENABLED Settle(p)

\* A fetch that goes on stores its response's models.
settleStores ==
  \A p \in ProviderNames :
    (modelFetches[p].pc = "responded" /\ modelFetches'[p].pc = "settled")
      => providers'[p] = [models |-> IF dedupeModels[p] THEN Dedupe(modelFetches[p].models)
                                     ELSE modelFetches[p].models,
                          isLoading |-> FALSE]

\* The models of a provider change with no other provider's entry, and its
\* isLoading flag changes only when its own fetch starts or settles.
ownEntryOnly ==
  \A p \in ProviderNames :
    /\ providers'[p].models # providers[p].models
         => \A q \in ProviderNames \ {p} : providers'[q] = providers[q]
    /\ providers'[p].isLoading # providers[p].isLoading
         => \/ modelFetches[p].pc # "waiting" /\ modelFetches'[p].pc = "waiting"
            \/ modelFetches[p].pc = "responded" /\ modelFetches'[p].pc = "settled"

allSettled == \A p \in ProviderNames : modelFetches[p].pc \in {"none", "settled"}

\* C25: a fetch whose response has arrived is never held back by another
\* provider and stores its models; an update for one provider leaves the other
\* providers' models and isLoading alone; once no fetch is in flight every
\* isLoading is false.
C25_IndependentFetches ==
  /\ [](neverBlocked /\ (allSettled => \A p \in ProviderNames : ~providers[p].isLoading))
  /\ [][settleStores /\ ownEntryOnly]_vars

\* The three initial fetches: base has failed and is settled, openrouter's
\* models are stored, ollama is still waiting for its response.
C25_Witness ==
  /\ modelFetches["base"].pc = "settled" /\ ~modelFetches["base"].ok
  /\ modelFetches["openrouter"].pc = "settled" /\ modelFetches["openrouter"].ok
  /\ providers["openrouter"] = [models |-> <<"m">>, isLoading |-> FALSE]
  /\ modelFetches["ollama"].pc = "waiting"
  /\ providers["ollama"].isLoading

(***************************************************************************)
(* The files GET handler (GET, handleLocalFile, handleCloudProxy), one     *)
(* request at a time.  `serve` is the request being served: its params and *)
(* query, what the handler has learnt at each await, and the response.     *)
(* checkHybridAuth, verifyFileAccess, findLocalFile, readFile and the      *)
(* downloads are outside the handler: their results are inputs.            *)
(***************************************************************************)
Paths == {<<>>, <<"a">>, <<"s3", "a">>, <<"blob", "a">>}

\* NextResponse.json({ error: 'Unauthorized' }, { status: 401 })
Unauthorized == [kind |-> "401", message |-> <<"Unauthorized">>]

\* createErrorResponse(new FileNotFoundError(message))
FileNotFoundError(message) == [kind |-> "FileNotFoundError", message |-> message]

\* createErrorResponse of an error thrown by a callee.
OtherError == [kind |-> "Error", message |-> <<>>]

\* createFileResponse({ buffer, contentType, filename })
FileResponse(key) == [kind |-> "file", message |-> key]

\* const isCloudPath = isS3Path || isBlobPath
isCloudPath(path) == path[1] \in {"s3", "blob"}

\* const cloudKey = isCloudPath ? path.slice(1).join('/') : fullPath
cloudKeyOf(path) == IF isCloudPath(path) THEN Tail(path) ELSE path

\* if (isUsingCloudStorage() || isCloudPath) handleCloudProxy else handleLocalFile
usesCloudProxy(request) == request.cloudStorage \/ isCloudPath(request.path)

\* Only authResult.success is tested.
unauthorized_SuccessOnly(success, userId) == ~success

\* if (!authResult.success || !authResult.userId)
unauthorized(success, userId) == ~success \/ ~userId

\* The context of handleCloudProxy; inferred stands for inferContextFromKey(cloudKey).
contextOf(contextParam, legacyBucketType, inferred) ==
  IF contextParam # "none" THEN contextParam
  ELSE IF legacyBucketType = "copilot" THEN "copilot"
  ELSE inferred

ServeStep ==
  /\ UNCHANGED dropdownVars
  /\ UNCHANGED <<permissionVars, providerVars, childVars>>

\* GET up to `await checkHybridAuth`: an empty path throws before it.
Receive(path, cloudStorage, contextParam, legacyBucketType) ==
  /\ serve.pc \in {"idle", "done"}
  /\ serve' =
       LET request == [NoRequest EXCEPT !.path = path, !.cloudStorage = cloudStorage,
                                        !.contextParam = contextParam,
                                        !.legacyBucketType = legacyBucketType]
       IN  IF Len(path) = 0
           THEN [request EXCEPT !.pc = "done",
                                !.response = FileNotFoundError(<<"No file path provided">>)]
           ELSE [request EXCEPT !.pc = "auth"]
  /\ ServeStep

\* checkHybridAuth resolves (or throws); GET goes on into handleCloudProxy or
\* handleLocalFile up to `await verifyFileAccess`.
Authenticate(threw, success, userId) ==
  /\ serve.pc = "auth"
  /\ serve' =
       IF threw THEN [serve EXCEPT !.pc = "done", !.response = OtherError]
       ELSE IF unauthorized(success, userId)
       THEN [serve EXCEPT !.pc = "done", !.authChecked = TRUE, !.success = success,
                          !.userId = userId, !.response = Unauthorized]
       ELSE [serve EXCEPT !.pc = "access", !.authChecked = TRUE, !.success = success,
                          !.userId = userId]
  /\ ServeStep

\* verifyFileAccess resolves (or throws); the handler goes on up to the read
\* or the download.  found stands for findLocalFile(filename) !== null.
VerifyAccess(threw, hasAccess, found, inferred) ==
  /\ serve.pc = "access"
  /\ serve' =
       LET key == IF usesCloudProxy(serve) THEN cloudKeyOf(serve.path) ELSE serve.path
           checked == [serve EXCEPT !.accessChecked = TRUE, !.hasAccess = ~threw /\ hasAccess,
                                    !.found = found]
           notFound == FileNotFoundError(<<"File not found: ">> \o key)
       IN  IF threw THEN [checked EXCEPT !.pc = "done", !.response = OtherError]
           ELSE IF ~hasAccess THEN [checked EXCEPT !.pc = "done", !.response = notFound]
           ELSE IF usesCloudProxy(serve)
           THEN [checked EXCEPT !.pc = "read",
                                !.fileRead =
                                  IF contextOf(serve.contextParam, serve.legacyBucketType,
                                               inferred) = "copilot"
                                  THEN "downloadCopilotFile" ELSE "downloadFile"]
           ELSE IF ~found THEN [checked EXCEPT !.pc = "done", !.response = notFound]
           ELSE [checked EXCEPT !.pc = "read", !.fileRead = "readFile"]
  /\ ServeStep

\* readFile or the download resolves (or throws an error of its own).
ReadDone(threw) ==
  /\ serve.pc = "read"
  /\ serve' =
       IF threw THEN [serve EXCEPT !.pc = "done", !.response = OtherError]
       ELSE [serve EXCEPT !.pc = "done",
                          !.response = FileResponse(IF usesCloudProxy(serve)
                                                    THEN cloudKeyOf(serve.path)
                                                    ELSE serve.path)]
  /\ ServeStep

(***************************************************************************)
(* Specification of the files GET handler: every request over Paths, with  *)
(* or without cloud storage, every result of the calls it awaits.          *)
(***************************************************************************)
NextServe ==
  \/ \E path \in Paths : \E cloudStorage \in BOOLEAN :
       \E contextParam \in {"none", "copilot", "workspace"} :
         \E legacyBucketType \in {"none", "copilot"} :
           Receive(path, cloudStorage, contextParam, legacyBucketType)
  \/ \E threw, success, userId \in BOOLEAN : Authenticate(threw, success, userId)
  \/ \E threw, hasAccess, found \in BOOLEAN : \E inferred \in {"copilot", "workspace"} :
       VerifyAccess(threw, hasAccess, found, inferred)
  \/ \E threw \in BOOLEAN : ReadDone(threw)

SpecServe == Init /\ [][NextServe]_vars

(***************************************************************************)
(* Properties of the files GET handler (SpecServe).                        *)
(***************************************************************************)
\* No read and no download without a successful check with a userId and a
\* granted access.
servingGated ==
  (serve.fileRead # "none" \/ serve.response.kind = "file")
    => /\ serve.authChecked /\ serve.success /\ serve.userId
       /\ serve.accessChecked /\ serve.hasAccess

\* A denied access gets the response of a missing local file.
deniedLikeMissing ==
  /\ (serve.pc = "done" /\ serve.accessChecked /\ serve.response # OtherError
        /\ ~serve.hasAccess)
       => serve.response.kind = "FileNotFoundError"
  /\ (serve.pc = "done" /\ serve.hasAccess /\ ~usesCloudProxy(serve) /\ ~serve.found)
       => serve.response = FileNotFoundError(<<"File not found: ">> \o serve.path)
  /\ (serve.pc = "done" /\ serve.accessChecked /\ serve.response # OtherError
        /\ ~serve.hasAccess /\ ~usesCloudProxy(serve))
       => serve.response = FileNotFoundError(<<"File not found: ">> \o serve.path)

ChildStep ==
  /\ UNCHANGED dropdownVars
  /\ UNCHANGED <<permissionVars, providerVars, serve>>

RemoveAt(seq, i) == SubSeq(seq, 1, i - 1) \o SubSeq(seq, i + 1, Len(seq))

\* The selected child workflow changes: the cleanup of the previous effect
\* run sets its `cancelled`, then the effect runs for the new id.
SelectChild(wfId) ==
  /\ wfId # childWorkflowId
  /\ wfId # 0 => Len(childFetches) < MaxLen
  /\ childWorkflowId' = wfId
  /\ LET cleaned == [i \in 1..Len(childFetches) |-> [childFetches[i] EXCEPT !.cancelled = TRUE]]
     IN  IF wfId # 0
         THEN /\ isLoadingChildVersion' = TRUE
              /\ childFetches' = Append(cleaned, [wfId |-> wfId, cancelled |-> FALSE])
              /\ UNCHANGED <<childActiveVersion, childIsDeployed>>
         ELSE /\ childActiveVersion' = 0
              /\ childIsDeployed' = FALSE
              /\ childFetches' = cleaned
              /\ UNCHANGED isLoadingChildVersion
  /\ ChildStep

\* fetchActiveVersion after its awaits: active is the version of the active
\* deployment, 0 when the response is not ok, holds no active version, or the
\* fetch threw.
FetchSettles(i, active) ==
  /\ i \in 1..Len(childFetches)
  /\ IF ~childFetches[i].cancelled
     THEN /\ childActiveVersion' = active
          /\ childIsDeployed' = (active # 0)
          /\ isLoadingChildVersion' = FALSE
     ELSE UNCHANGED <<childActiveVersion, childIsDeployed, isLoadingChildVersion>>
  /\ childFetches' = RemoveAt(childFetches, i)
  /\ UNCHANGED childWorkflowId
  /\ ChildStep

(***************************************************************************)
(* Specification of the child-deployment status: child workflows 1 to      *)
(* MaxBlocks or none, up to MaxLen fetches in flight, settling in any      *)
(* order with an active version of 1 or 2 or none.                         *)
(***************************************************************************)
NextChild ==
  \/ \E wfId \in 0..MaxBlocks : SelectChild(wfId)
  \/ \E i \in 1..MaxLen : \E active \in 0..2 : FetchSettles(i, active)

SpecChild == Init /\ [][NextChild]_vars

(***************************************************************************)
(* Properties of the child-deployment status (SpecChild).                  *)
(***************************************************************************)
\* A fetch that was cancelled settles without a change of the status.
staleNeverUpdates ==
  \A i \in 1..Len(childFetches) :
    (childFetches' = RemoveAt(childFetches, i) /\ childFetches[i].cancelled)
      => UNCHANGED <<childActiveVersion, childIsDeployed>>

noFetchForCurrentId ==
  \A i \in 1..Len(childFetches) : childFetches[i].wfId # childWorkflowId

\* C30 (as claimed): a response to a fetch issued for a previous id never
\* updates childActiveVersion or childIsDeployed, and once no fetch for the
\* current id is in flight isLoadingChildVersion is false.
C30_NeverStale ==
  /\ [][staleNeverUpdates]_vars
  /\ [](noFetchForCurrentId => ~isLoadingChildVersion)

\* The first half alone.
C30_StaleResponses == [][staleNeverUpdates]_vars

====
